---- MODULE Spec2Model ----
(***************************************************************************)
(* Xiangqi (Chinese chess): the rules engine of services/xiangiRules.ts,   *)
(* the session store of server.js and the client of App.tsx / Board.tsx.   *)
(*                                                                         *)
(* A piece list (Piece[]) is a function from piece ids to positions.  The  *)
(* ids are the idCounter values 0..31 of getInitialPieces; the type and    *)
(* colour of a piece are fixed by its id (the id string embeds them and no *)
(* code path rewrites them), so they are read from InitialLayout.  The     *)
(* array order of a piece list is always increasing id (filter and map     *)
(* keep the order), so "the first element that ..." is "the least id       *)
(* that ...".  A captured piece is missing from the function's domain.     *)
(*                                                                         *)
(* A Move is [pieceId, from, to, capturedPieceId]; its timestamp and       *)
(* notation fields are display data that no rule and no handler reads.     *)
(***************************************************************************)
EXTENDS Integers, Sequences, FiniteSets, TLC

BOARD_ROWS == 10
BOARD_COLS == 9

RED == "red"
BLACK == "black"

GENERAL == "general"
ADVISOR == "advisor"
ELEPHANT == "elephant"
HORSE == "horse"
CHARIOT == "chariot"
CANNON == "cannon"
SOLDIER == "soldier"

\* capturedPieceId === undefined, getPieceAt(...) === undefined
NoPiece == -1

Pos(px, py) == [x |-> px, y |-> py]

Abs(n) == IF n < 0 THEN -n ELSE n
Sign(n) == IF n > 0 THEN 1 ELSE IF n < 0 THEN -1 ELSE 0
Min2(a, b) == IF a < b THEN a ELSE b
Max2(a, b) == IF a > b THEN a ELSE b

\* the createPiece calls of getInitialPieces, in call order
BackRank == <<CHARIOT, HORSE, ELEPHANT, ADVISOR, GENERAL, ADVISOR, ELEPHANT, HORSE, CHARIOT>>

SideLayout(color, backY, cannonY, soldierY) ==
    [k \in 1..9 |-> [type |-> BackRank[k], color |-> color, x |-> k - 1, y |-> backY]]
    \o << [type |-> CANNON, color |-> color, x |-> 1, y |-> cannonY],
          [type |-> CANNON, color |-> color, x |-> 7, y |-> cannonY] >>
    \o [k \in 1..5 |-> [type |-> SOLDIER, color |-> color, x |-> 2 * (k - 1), y |-> soldierY]]

InitialLayout == SideLayout(BLACK, 0, 2, 3) \o SideLayout(RED, 9, 7, 6)

PieceIds == 0 .. (Len(InitialLayout) - 1)

PieceType(i) == InitialLayout[i + 1].type
PieceColor(i) == InitialLayout[i + 1].color

getInitialPieces == [i \in PieceIds |-> Pos(InitialLayout[i + 1].x, InitialLayout[i + 1].y)]

Opponent(c) == IF c = RED THEN BLACK ELSE RED

\* isWithinBoard with one more file and one more rank
isWithinBoardWider(p) == p.x >= 0 /\ p.x <= BOARD_COLS /\ p.y >= 0 /\ p.y <= BOARD_ROWS

isWithinBoard(p) == p.x >= 0 /\ p.x < BOARD_COLS /\ p.y >= 0 /\ p.y < BOARD_ROWS

\* pieces.find(p => p.position.x === pos.x && p.position.y === pos.y)
getPieceAt(pieces, pos) ==
    LET here == {i \in DOMAIN pieces : pieces[i] = pos}
    IN IF here = {} THEN NoPiece ELSE CHOOSE i \in here : \A j \in here : i <= j

\* pieces.find(p => p.type === GENERAL && p.color === color)
findGeneral(pieces, color) ==
    LET gs == {i \in DOMAIN pieces : PieceType(i) = GENERAL /\ PieceColor(i) = color}
    IN IF gs = {} THEN NoPiece ELSE CHOOSE i \in gs : \A j \in gs : i <= j

\* a list built by filter and map, as an explicit function (@@ builds the
\* function at once instead of leaving it to be evaluated entry by entry)
ListOf(f) == f @@ <<>>

\* applyMove without its filter: the captured piece stays in the list
applyMoveKeepsCaptured(pieces, move) ==
    ListOf([i \in DOMAIN pieces |-> IF i = move.pieceId THEN move.to ELSE pieces[i]])

applyMove(pieces, move) ==
    ListOf([i \in {j \in DOMAIN pieces : j # move.capturedPieceId} |->
                IF i = move.pieceId THEN move.to ELSE pieces[i]])

\* the loop of reconstructBoard from its k-th move on (no move changes an
\* empty list of pieces)
RECURSIVE ReplayFrom(_, _, _)
ReplayFrom(pieces, moves, k) ==
    IF k > Len(moves) \/ DOMAIN pieces = {} THEN pieces
    ELSE ReplayFrom(applyMove(pieces, moves[k]), moves, k + 1)

\* reconstructBoard with its loop begun at the second move
reconstructBoardFromSecond(moves) == ReplayFrom(getInitialPieces, moves, 2)

reconstructBoard(moves) == ReplayFrom(getInitialPieces, moves, 1)

\* HistoryView.getHistoryPieces: the replay of moves.slice(0, historyStep), which
\* is the whole list when the step is beyond its end
getHistoryPieces(replaySession, step) ==
    reconstructBoard(SubSeq(replaySession.moves, 1, Min2(step, Len(replaySession.moves))))

\* isGeneralFacingGeneral without its loop over the squares between
isGeneralFacingGeneralThrough(pieces) ==
    LET redGen == findGeneral(pieces, RED)
        blackGen == findGeneral(pieces, BLACK)
    IN IF redGen = NoPiece \/ blackGen = NoPiece THEN FALSE
       ELSE pieces[redGen].x = pieces[blackGen].x

isGeneralFacingGeneral(pieces) ==
    LET redGen == findGeneral(pieces, RED)
        blackGen == findGeneral(pieces, BLACK)
    IN IF redGen = NoPiece \/ blackGen = NoPiece THEN FALSE
       ELSE IF pieces[redGen].x # pieces[blackGen].x THEN FALSE
       ELSE LET col == pieces[redGen].x
                minY == Min2(pieces[redGen].y, pieces[blackGen].y)
                maxY == Max2(pieces[redGen].y, pieces[blackGen].y)
            IN \A yy \in (minY + 1) .. (maxY - 1) : getPieceAt(pieces, Pos(col, yy)) = NoPiece

\* tryAddMove pushing every square of the board, whatever stands on it
tryAddMoveOntoFriends(i, allPieces, t) == isWithinBoard(t)

\* tryAddMove pushes the square: on the board, and empty or holding an enemy
tryAddMove(i, allPieces, t) ==
    /\ isWithinBoard(t)
    /\ LET target == getPieceAt(allPieces, t)
       IN IF target = NoPiece THEN TRUE ELSE PieceColor(target) # PieceColor(i)

OrthoDirs == {<<0, 1>>, <<0, -1>>, <<1, 0>>, <<-1, 0>>}
DiagDirs == {<<1, 1>>, <<1, -1>>, <<-1, 1>>, <<-1, -1>>}
ElephantDirs == {<<2, 2>>, <<2, -2>>, <<-2, 2>>, <<-2, -2>>}
HorseDirs == {<<1, 2>>, <<1, -2>>, <<-1, 2>>, <<-1, -2>>, <<2, 1>>, <<2, -1>>, <<-2, 1>>, <<-2, -1>>}

\* every square tryAddMove can push
BoardSquares == {Pos(sx, sy) : sx \in 0 .. (BOARD_COLS - 1), sy \in 0 .. (BOARD_ROWS - 1)}

InPalace(isRed, t) ==
    /\ t.x >= 3 /\ t.x <= 5
    /\ IF isRed THEN t.y >= 7 /\ t.y <= 9 ELSE t.y >= 0 /\ t.y <= 2

(***************************************************************************)
(* The switch over piece.type, as the condition under which the case       *)
(* pushes the square t: one of the case's offsets (or, for a sliding       *)
(* piece, one of its loops) leads from the piece's square to t and the     *)
(* case's tests pass there.                                                *)
(***************************************************************************)
\* the GENERAL case with the ranks of both palaces allowed to either colour
GeneralPushesEitherPalace(i, allPieces, t) ==
    LET p == allPieces[i]
    IN /\ \E d \in OrthoDirs : t.x = p.x + d[1] /\ t.y = p.y + d[2]
       /\ (InPalace(TRUE, t) \/ InPalace(FALSE, t))
       /\ tryAddMove(i, allPieces, t)

GeneralPushes(i, allPieces, t) ==
    LET p == allPieces[i]
    IN /\ \E d \in OrthoDirs : t.x = p.x + d[1] /\ t.y = p.y + d[2]
       /\ InPalace(PieceColor(i) = RED, t)
       /\ tryAddMove(i, allPieces, t)

AdvisorPushes(i, allPieces, t) ==
    LET p == allPieces[i]
    IN /\ \E d \in DiagDirs : t.x = p.x + d[1] /\ t.y = p.y + d[2]
       /\ InPalace(PieceColor(i) = RED, t)
       /\ tryAddMove(i, allPieces, t)

\* the ELEPHANT case without its test of the eye
ElephantPushesNoEye(i, allPieces, t) ==
    LET p == allPieces[i]
        isRed == PieceColor(i) = RED
    IN /\ \E d \in ElephantDirs : t.x = p.x + d[1] /\ t.y = p.y + d[2]
       /\ ~(isRed /\ t.y < 5)
       /\ ~(~isRed /\ t.y > 4)
       /\ tryAddMove(i, allPieces, t)

ElephantPushes(i, allPieces, t) ==
    LET p == allPieces[i]
        isRed == PieceColor(i) = RED
    IN /\ \E d \in ElephantDirs :
             /\ t.x = p.x + d[1] /\ t.y = p.y + d[2]
             \* the eye
             /\ getPieceAt(allPieces, Pos(p.x + d[1] \div 2, p.y + d[2] \div 2)) = NoPiece
       \* the river
       /\ ~(isRed /\ t.y < 5)
       /\ ~(~isRed /\ t.y > 4)
       /\ tryAddMove(i, allPieces, t)

\* the HORSE case without its test of the leg
HorsePushesNoLeg(i, allPieces, t) ==
    LET p == allPieces[i]
    IN /\ \E d \in HorseDirs : t.x = p.x + d[1] /\ t.y = p.y + d[2]
       /\ tryAddMove(i, allPieces, t)

HorsePushes(i, allPieces, t) ==
    LET p == allPieces[i]
    IN /\ \E d \in HorseDirs :
             /\ t.x = p.x + d[1] /\ t.y = p.y + d[2]
             \* the leg
             /\ getPieceAt(allPieces,
                           Pos(p.x + (IF Abs(d[1]) = 2 THEN Sign(d[1]) ELSE 0),
                               p.y + (IF Abs(d[2]) = 2 THEN Sign(d[2]) ELSE 0))) = NoPiece
       /\ tryAddMove(i, allPieces, t)

\* t = (x + dx*i, y + dy*i) for one of the four directions and some i >= 1
OnRay(p, t) == (t.x = p.x /\ t.y # p.y) \/ (t.y = p.y /\ t.x # p.x)

\* the squares (x + dx*j, y + dy*j), 1 <= j < i, the loop visits before t
RayBefore(p, t) ==
    IF t.x = p.x
    THEN {Pos(p.x, yy) : yy \in (Min2(p.y, t.y) + 1) .. (Max2(p.y, t.y) - 1)}
    ELSE {Pos(xx, p.y) : xx \in (Min2(p.x, t.x) + 1) .. (Max2(p.x, t.x) - 1)}

\* the loop goes on over empty squares only (tryAddMove returned true), and
\* tryAddMove pushes the square it stops at when that holds an enemy
ChariotPushes(i, allPieces, t) ==
    LET p == allPieces[i]
    IN /\ OnRay(p, t)
       /\ \A b \in RayBefore(p, t) : getPieceAt(allPieces, b) = NoPiece
       /\ tryAddMove(i, allPieces, t)

\* before the mount every empty square is pushed; the first piece met is the
\* mount; the next piece met ends the loop and is pushed if it is an enemy
CannonPushes(i, allPieces, t) ==
    LET p == allPieces[i]
    IN /\ OnRay(p, t)
       /\ isWithinBoard(t)
       /\ LET mounts == Cardinality({b \in RayBefore(p, t) :
                                       getPieceAt(allPieces, b) # NoPiece})
              target == getPieceAt(allPieces, t)
          IN \/ mounts = 0 /\ target = NoPiece
             \/ /\ mounts = 1
                /\ target # NoPiece
                /\ PieceColor(target) # PieceColor(i)

\* the while loop of the CHARIOT case in direction d from its step k on, as the
\* squares it pushes; the loop goes on behind an enemy it has pushed
RECURSIVE ChariotLoopThrough(_, _, _, _)
ChariotLoopThrough(i, allPieces, d, k) ==
    LET t == Pos(allPieces[i].x + d[1] * k, allPieces[i].y + d[2] * k)
        target == getPieceAt(allPieces, t)
    IN IF ~isWithinBoard(t) THEN {}
       ELSE IF target = NoPiece \/ PieceColor(target) # PieceColor(i)
            THEN {t} \cup ChariotLoopThrough(i, allPieces, d, k + 1)
            ELSE {}

\* the while loop of the CHARIOT case in direction d from its step k on, as the
\* squares it pushes: tryAddMove pushes an empty square and the loop goes on,
\* pushes an enemy's square and the loop breaks, or pushes nothing and it breaks
RECURSIVE ChariotLoop(_, _, _, _)
ChariotLoop(i, allPieces, d, k) ==
    LET t == Pos(allPieces[i].x + d[1] * k, allPieces[i].y + d[2] * k)
        target == getPieceAt(allPieces, t)
    IN IF ~isWithinBoard(t) THEN {}
       ELSE IF target = NoPiece THEN {t} \cup ChariotLoop(i, allPieces, d, k + 1)
       ELSE IF PieceColor(target) # PieceColor(i) THEN {t}
       ELSE {}

\* the list the CHARIOT case builds over its four directions
ChariotMoves(i, allPieces) ==
    UNION {ChariotLoop(i, allPieces, d, 1) : d \in OrthoDirs}

\* the while loop of the CANNON case in direction d from its step k on, as the
\* squares it pushes; a capture wants no mount
RECURSIVE CannonLoopNoMount(_, _, _, _, _)
CannonLoopNoMount(i, allPieces, d, k, hasMount) ==
    LET t == Pos(allPieces[i].x + d[1] * k, allPieces[i].y + d[2] * k)
        target == getPieceAt(allPieces, t)
    IN IF ~isWithinBoard(t) THEN {}
       ELSE IF target = NoPiece
            THEN {t} \cup CannonLoopNoMount(i, allPieces, d, k + 1, hasMount)
            ELSE IF PieceColor(target) # PieceColor(i) THEN {t} ELSE {}

\* the while loop of the CANNON case in direction d from its step k on, as the
\* squares it pushes
RECURSIVE CannonLoop(_, _, _, _, _)
CannonLoop(i, allPieces, d, k, hasMount) ==
    LET t == Pos(allPieces[i].x + d[1] * k, allPieces[i].y + d[2] * k)
        target == getPieceAt(allPieces, t)
    IN IF ~isWithinBoard(t) THEN {}
       ELSE IF ~hasMount
            THEN IF target = NoPiece
                 THEN {t} \cup CannonLoop(i, allPieces, d, k + 1, FALSE)
                 ELSE CannonLoop(i, allPieces, d, k + 1, TRUE)
            ELSE IF target # NoPiece
                 THEN IF PieceColor(target) # PieceColor(i) THEN {t} ELSE {}
                 ELSE CannonLoop(i, allPieces, d, k + 1, TRUE)

\* the list the CANNON case builds over its four directions
CannonMoves(i, allPieces) ==
    UNION {CannonLoop(i, allPieces, d, 1, FALSE) : d \in OrthoDirs}

\* the SOLDIER case with its sideways steps on either side of the river
SoldierPushesAnywhere(i, allPieces, t) ==
    LET p == allPieces[i]
        forward == IF PieceColor(i) = RED THEN -1 ELSE 1
    IN /\ \/ t.x = p.x /\ t.y = p.y + forward
          \/ t.y = p.y /\ (t.x = p.x - 1 \/ t.x = p.x + 1)
       /\ tryAddMove(i, allPieces, t)

SoldierPushes(i, allPieces, t) ==
    LET p == allPieces[i]
        isRed == PieceColor(i) = RED
        forward == IF isRed THEN -1 ELSE 1
        crossedRiver == IF isRed THEN p.y <= 4 ELSE p.y >= 5
    IN /\ \/ t.x = p.x /\ t.y = p.y + forward
          \/ crossedRiver /\ t.y = p.y /\ (t.x = p.x - 1 \/ t.x = p.x + 1)
       /\ tryAddMove(i, allPieces, t)

\* moves.some(m => m.x === t.x && m.y === t.y) for the list the switch builds
Pushes(i, allPieces, t) ==
    CASE PieceType(i) = GENERAL -> GeneralPushes(i, allPieces, t)
      [] PieceType(i) = ADVISOR -> AdvisorPushes(i, allPieces, t)
      [] PieceType(i) = ELEPHANT -> ElephantPushes(i, allPieces, t)
      [] PieceType(i) = HORSE -> HorsePushes(i, allPieces, t)
      [] PieceType(i) = CHARIOT -> ChariotPushes(i, allPieces, t)
      [] PieceType(i) = CANNON -> CannonPushes(i, allPieces, t)
      [] PieceType(i) = SOLDIER -> SoldierPushes(i, allPieces, t)

\* the simulated list of the flying-general filter: the mover relocated, every
\* other piece standing on the destination dropped
SimulateMove(i, allPieces, movePos) ==
    ListOf([j \in {k \in DOMAIN allPieces : k = i \/ allPieces[k] # movePos} |->
                IF j = i THEN movePos ELSE allPieces[j]])

\* the list of the switch returned as it is, the filter left out
IsValidMoveUnfiltered(i, allPieces, t) == Pushes(i, allPieces, t)

\* t is in the list getValidMoves returns: pushed, and kept by the filter
IsValidMove(i, allPieces, t) ==
    /\ Pushes(i, allPieces, t)
    /\ ~isGeneralFacingGeneral(SimulateMove(i, allPieces, t))

getValidMoves(i, allPieces) ==
    {t \in BoardSquares : IsValidMove(i, allPieces, t)}

isSquareThreatened(pieces, target, defender) ==
    LET attacker == Opponent(defender)
    IN \E i \in {j \in DOMAIN pieces : PieceColor(j) = attacker} :
          \/ /\ PieceType(i) = GENERAL
             /\ pieces[i].x = target.x
             /\ \A yy \in (Min2(pieces[i].y, target.y) + 1) .. (Max2(pieces[i].y, target.y) - 1) :
                   getPieceAt(pieces, Pos(target.x, yy)) = NoPiece
          \* moves.some(m => m.x === target.x && m.y === target.y)
          \/ IsValidMove(i, pieces, target)

\* isInCheck without its answer for a colour that has no General
isInCheckNoGeneral(pieces, color) ==
    LET general == findGeneral(pieces, color)
    IN IF general = NoPiece THEN FALSE
       ELSE IF isGeneralFacingGeneral(pieces) THEN TRUE
       ELSE isSquareThreatened(pieces, pieces[general], color)

isInCheck(pieces, color) ==
    LET general == findGeneral(pieces, color)
    IN IF general = NoPiece THEN TRUE
       ELSE IF isGeneralFacingGeneral(pieces) THEN TRUE
       ELSE isSquareThreatened(pieces, pieces[general], color)

\* every generated move counted as legal, in check after it or not
hasAnyLegalMoveUnchecked(pieces, color) ==
    \E i \in {j \in DOMAIN pieces : PieceColor(j) = color} :
        getValidMoves(i, pieces) # {}

hasAnyLegalMove(pieces, color) ==
    \E i \in {j \in DOMAIN pieces : PieceColor(j) = color} :
        \E moveTarget \in getValidMoves(i, pieces) :
            LET simulatedMove == [pieceId |-> i, from |-> pieces[i], to |-> moveTarget,
                                  capturedPieceId |-> getPieceAt(pieces, moveTarget)]
            IN ~isInCheck(applyMove(pieces, simulatedMove), color)

\* the two verdicts exchanged
evaluateGameStateSwapped(pieces, turn) ==
    LET inCheck == isInCheck(pieces, turn)
        hasMoves == hasAnyLegalMove(pieces, turn)
    IN [inCheck |-> inCheck,
        checkmated |-> ~inCheck /\ ~hasMoves,
        stalemated |-> inCheck /\ ~hasMoves]

evaluateGameState(pieces, turn) ==
    LET inCheck == isInCheck(pieces, turn)
        hasMoves == hasAnyLegalMove(pieces, turn)
    IN [inCheck |-> inCheck,
        checkmated |-> inCheck /\ ~hasMoves,
        stalemated |-> ~inCheck /\ ~hasMoves]

(***************************************************************************)
(* Sessions, the store and the clients.                                    *)
(*                                                                         *)
(* An optional value (GameSession | null, Move | null, ...) is a sequence  *)
(* of length 0 or 1.  An absent winner / resultReason / players is "none". *)
(* Date.now() is the variable now; every handler that reads it is followed *)
(* by a later reading, so the handlers that stamp a session advance it.    *)
(***************************************************************************)
Clients == {"c1", "c2"}

\* the clock stops the run: no move is made and no game is created at or
\* after MaxTime (a game-over timer that is pending still runs)
MaxTime == 4

None == "none"
Null == <<>>
Some(v) == <<v>>

\* the pieces a user picks up in this model (one id per kind of case), and the
\* squares a user chooses as a target: the central file and the left cannon's way
ClickPieces == {25, 24, 1}
ClickSquares == {Pos(4, 0), Pos(4, 1), Pos(4, 3), Pos(4, 4), Pos(4, 5)}

Mv(i, fx, fy, tx, ty, cap) ==
    [pieceId |-> i, from |-> Pos(fx, fy), to |-> Pos(tx, ty), capturedPieceId |-> cap]

\* a game played earlier: Red brings both cannons to the central file
CannonGame ==
    << Mv(26, 7, 7, 4, 7, NoPiece), Mv(11, 0, 3, 0, 4, NoPiece),
       Mv(26, 4, 7, 4, 3, 13),      Mv(11, 0, 4, 0, 5, NoPiece),
       Mv(25, 1, 7, 1, 4, NoPiece), Mv(11, 0, 5, 0, 6, 27) >>

\* a game in which Black is to move and in check: the Red cannon on the central
\* file has a Red soldier as its mount; the Black horse can block, or take the mount
HorseGame ==
    << Mv(29, 4, 6, 4, 5, NoPiece), Mv(1, 1, 0, 2, 2, NoPiece),
       Mv(29, 4, 5, 4, 4, NoPiece), Mv(11, 0, 3, 0, 4, NoPiece),
       Mv(29, 4, 4, 4, 3, 13),      Mv(11, 0, 4, 0, 5, NoPiece),
       Mv(26, 7, 7, 4, 7, NoPiece) >>

\* a long game: Red takes every Black piece but the general
ChariotGame ==
    << Mv(26, 7, 7, 7, 0, 7),       Mv(12, 2, 3, 2, 4, NoPiece),
       Mv(25, 1, 7, 1, 0, 1),       Mv(9, 1, 2, 1, 5, NoPiece),
       Mv(26, 7, 0, 5, 0, 5),       Mv(9, 1, 5, 8, 5, NoPiece),
       Mv(31, 8, 6, 8, 5, 9),       Mv(4, 4, 0, 4, 1, NoPiece),
       Mv(25, 1, 0, 3, 0, 3),       Mv(15, 8, 3, 8, 4, NoPiece),
       Mv(25, 3, 0, 0, 0, 0),       Mv(12, 2, 4, 2, 5, NoPiece),
       Mv(31, 8, 5, 8, 4, 15),      Mv(10, 7, 2, 7, 4, NoPiece),
       Mv(31, 8, 4, 7, 4, 10),      Mv(2, 2, 0, 4, 2, NoPiece),
       Mv(24, 8, 9, 8, 0, 8),       Mv(4, 4, 1, 5, 1, NoPiece),
       Mv(24, 8, 0, 6, 0, 6),       Mv(14, 6, 3, 6, 4, NoPiece),
       Mv(24, 6, 0, 6, 4, 14),      Mv(12, 2, 5, 1, 5, NoPiece),
       Mv(16, 0, 9, 0, 7, NoPiece), Mv(13, 4, 3, 4, 4, NoPiece),
       Mv(24, 6, 4, 4, 4, 13),      Mv(11, 0, 3, 0, 4, NoPiece),
       Mv(24, 4, 4, 4, 2, 2),       Mv(12, 1, 5, 0, 5, NoPiece),
       Mv(25, 0, 0, 0, 5, 12),      Mv(11, 0, 4, 0, 5, 25),
       Mv(27, 0, 6, 0, 5, 11),      Mv(4, 5, 1, 5, 0, 26) >>

\* a game in which Red is to move and the Red cannon on the central file can take
\* the Black advisor over the Black soldier, or step back without taking
AdvisorGame ==
    << Mv(25, 1, 7, 1, 4, NoPiece), Mv(3, 3, 0, 4, 1, NoPiece),
       Mv(25, 1, 4, 4, 4, NoPiece), Mv(11, 0, 3, 0, 4, NoPiece) >>

\* a game in which Red is to move with both cannons and a chariot out: the left
\* cannon on (1,4) is one move from the central file, the chariot beside it on (0,4)
FlankGame ==
    << Mv(26, 7, 7, 4, 7, NoPiece), Mv(11, 0, 3, 0, 4, NoPiece),
       Mv(26, 4, 7, 4, 3, 13),      Mv(11, 0, 4, 0, 5, NoPiece),
       Mv(25, 1, 7, 1, 4, NoPiece), Mv(11, 0, 5, 0, 6, 27),
       Mv(24, 8, 9, 8, 8, NoPiece), Mv(11, 0, 6, 0, 7, NoPiece),
       Mv(24, 8, 8, 0, 8, NoPiece), Mv(15, 8, 3, 8, 4, NoPiece),
       Mv(24, 0, 8, 0, 7, 11),      Mv(15, 8, 4, 8, 5, NoPiece),
       Mv(24, 0, 7, 0, 4, NoPiece), Mv(15, 8, 5, 8, 6, 31) >>

\* the move histories of the game found in the store when the clients start
StoredGames == {CannonGame, HorseGame, ChariotGame, AdvisorGame}

TurnAfter(moves) == IF Len(moves) % 2 = 0 THEN RED ELSE BLACK

\* a new session in which Black moves first
NewSessionBlackFirst(t) ==
    [id |-> t, startTime |-> t, lastUpdated |-> t, status |-> "active",
     winner |-> None, resultReason |-> None, players |-> None,
     pieces |-> getInitialPieces, turn |-> BLACK, moves |-> <<>>, name |-> t]

\* storageService.createNewGame: the session record
NewSession(t) ==
    [id |-> t, startTime |-> t, lastUpdated |-> t, status |-> "active",
     winner |-> None, resultReason |-> None, players |-> None,
     pieces |-> getInitialPieces, turn |-> RED, moves |-> <<>>, name |-> t]

\* a session that earlier clients created and played up to the given history
PlayedSession(t, moves) ==
    [NewSession(t) EXCEPT !.pieces = reconstructBoard(moves),
                          !.turn = TurnAfter(moves), !.moves = moves]

VARIABLES store, now, currentSession, playerSide, view, checkAlert,
          selectedPieceId, validMoves, gameOverTimers,
          frozenBoardState, replayPieceOverride, animations,
          historyList, selectedHistorySession, historyStep, isPlayingHistory,
          playbackInterval, pollResponses

vars == <<store, now, currentSession, playerSide, view, checkAlert,
          selectedPieceId, validMoves, gameOverTimers,
          frozenBoardState, replayPieceOverride, animations,
          historyList, selectedHistorySession, historyStep, isPlayingHistory,
          playbackInterval, pollResponses>>

\* the history view's state cells, and the running setInterval of togglePlayback
\* (the session its callback closed over, absent while playbackIntervalRef is null)
replayVars == <<selectedHistorySession, historyStep, isPlayingHistory, playbackInterval>>

\* server.js persistGame: INSERT ... ON CONFLICT(id) DO UPDATE
persistGame(st, game) ==
    [i \in (DOMAIN st) \cup {game.id} |-> IF i = game.id THEN game ELSE st[i]]

\* GET /api/games/current: the active row with the greatest lastUpdated
CurrentGames(st) ==
    {Some(st[i]) : i \in {j \in DOMAIN st :
        /\ st[j].status = "active"
        /\ \A k \in DOMAIN st : st[k].status = "active" => st[k].lastUpdated <= st[j].lastUpdated}}

fetchCurrentGame(st) == IF CurrentGames(st) = {} THEN {Null} ELSE CurrentGames(st)

\* GET /api/games/history: the finished rows
fetchHistory(st) == {st[i] : i \in {j \in DOMAIN st : st[j].status = "finished"}}

\* useState of the history view, and no poll on its way
InitReplay ==
    /\ historyList = [c \in Clients |-> {}]
    /\ selectedHistorySession = [c \in Clients |-> Null]
    /\ historyStep = [c \in Clients |-> 0]
    /\ isPlayingHistory = [c \in Clients |-> FALSE]
    /\ playbackInterval = [c \in Clients |-> Null]
    /\ pollResponses = [c \in Clients |-> {}]

\* the squares the user of client c chooses as a target: in the game on the
\* flank, also the square the left cannon leaves for the central file
FlankSquares == {Pos(1, 4)}

TargetSquares(c) ==
    IF /\ currentSession[c] # Null
       /\ Len(currentSession[c][1].moves) >= Len(FlankGame)
       /\ SubSeq(currentSession[c][1].moves, 1, Len(FlankGame)) = FlankGame
    THEN ClickSquares \cup FlankSquares
    ELSE ClickSquares

Init ==
    /\ \/ store = <<>>
       \/ \E g \in StoredGames : store = (1 :> PlayedSession(1, g))
    /\ now = 2
    /\ currentSession = [c \in Clients |-> Null]
    /\ playerSide = [c \in Clients |-> None]
    /\ view = [c \in Clients |-> "play"]
    /\ checkAlert = [c \in Clients |-> ""]
    /\ selectedPieceId = [c \in Clients |-> NoPiece]
    /\ validMoves = [c \in Clients |-> {}]
    /\ gameOverTimers = [c \in Clients |-> {}]
    /\ frozenBoardState = [c \in Clients |-> Null]
    /\ replayPieceOverride = [c \in Clients |-> Null]
    /\ animations = [c \in Clients |-> {}]
    /\ InitReplay

(***************************************************************************)
(* What a client renders.                                                  *)
(***************************************************************************)
\* App: the pieces handed to PlayView, with replayPieceOverride applied
WithOverride(pieces, ov) ==
    ListOf([i \in DOMAIN pieces |->
                IF ov # Null /\ ov[1].id = i THEN ov[1].position ELSE pieces[i]])

\* App: the currentSession prop of PlayView (the frozen board wins), in two
\* parts: the session that is spread, and the pieces that replace its pieces
ShownSession(cur, frozen) ==
    IF frozen # Null THEN Some(frozen[1].session) ELSE cur

ShownPieces(cur, frozen, ov) ==
    WithOverride(IF frozen # Null THEN frozen[1].pieces ELSE cur[1].pieces, ov)

Shown(c) == ShownSession(currentSession[c], frozenBoardState[c])

\* PlayView: the pieces prop of Board
BoardPieces(c) == ShownPieces(currentSession[c], frozenBoardState[c], replayPieceOverride[c])

\* App: const canMove = !!(currentSession && status === 'active' && playerSide === turn)
canMove(c) ==
    /\ currentSession[c] # Null
    /\ currentSession[c][1].status = "active"
    /\ playerSide[c] = currentSession[c][1].turn

\* the turn prop of the mounted play Board, "none" while no play Board is mounted
BoardTurn(cur, frozen, vw) ==
    IF vw = "play" /\ ShownSession(cur, frozen) # Null
    THEN ShownSession(cur, frozen)[1].turn
    ELSE None

\* Board: useEffect(() => { setSelectedPieceId(null); setValidMoves([]) }, [turn]),
\* and a Board that is unmounted loses its state.  sel and vm are what the
\* handler itself left in the two state cells of client c (a handler touches
\* the cells of one client only).
RenderBoard(c, sel, vm) ==
    LET changed ==
            BoardTurn(currentSession'[c], frozenBoardState'[c], view'[c])
            # BoardTurn(currentSession[c], frozenBoardState[c], view[c])
    IN /\ selectedPieceId' = [selectedPieceId EXCEPT ![c] = IF changed THEN NoPiece ELSE sel]
       /\ validMoves' = [validMoves EXCEPT ![c] = IF changed THEN {} ELSE vm]

InCheckAlert(color) == IF color = RED THEN "red in check" ELSE "black in check"

SessionKey(cur) == IF cur = Null THEN <<-1, -1>> ELSE <<cur[1].id, cur[1].lastUpdated>>

\* App: the effect on [currentSession?.id, currentSession?.lastUpdated] of client c;
\* alert is what the handler itself set
RenderAlert(c, alert) ==
    LET effect(cur) ==
            IF cur = Null \/ cur[1].status # "active" THEN ""
            \* evaluateGameState(pieces, turn).inCheck, that is isInCheck(pieces, turn)
            ELSE IF isInCheck(cur[1].pieces, cur[1].turn)
                 THEN InCheckAlert(cur[1].turn) ELSE ""
    IN checkAlert' = [checkAlert EXCEPT ![c] =
            IF SessionKey(currentSession'[c]) # SessionKey(currentSession[c])
            THEN effect(currentSession'[c]) ELSE alert]

\* App: const activeReplaySession = selectedHistorySession || currentSession
activeReplaySession(sel, cur) == IF sel # Null THEN sel ELSE cur

\* activeReplaySession?.id, -1 for undefined
ReplayId(session) == IF session = Null THEN -1 ELSE session[1].id

\* App: the effect on [view] and the effect on [activeReplaySession?.id] of
\* client c.  sel, step, playing and interval are what the handler itself left
\* in the cells.  The render after the handler runs both effects; the effect on
\* [view] may clear the selection, and the render that follows runs the effect on
\* the id once more.
RenderReplay(c, sel, step, playing, interval) ==
    LET cur == currentSession'[c]
        viewChanged == view'[c] # view[c]
        toPlay == viewChanged /\ view'[c] = "play"
        before == activeReplaySession(selectedHistorySession[c], currentSession[c])
        first == activeReplaySession(sel, cur)
        cleared == IF toPlay THEN Null ELSE sel
        second == activeReplaySession(cleared, cur)
        resetFirst == first # Null /\ ReplayId(first) # ReplayId(before)
        resetSecond == second # Null /\ ReplayId(second) # ReplayId(first)
        stopped == resetFirst \/ resetSecond \/ toPlay
    IN /\ selectedHistorySession' = [selectedHistorySession EXCEPT ![c] = cleared]
       /\ historyStep' = [historyStep EXCEPT ![c] =
             IF resetSecond THEN Len(second[1].moves)
             ELSE IF resetFirst THEN Len(first[1].moves)
             ELSE IF viewChanged /\ view'[c] = "history" /\ sel = Null /\ cur # Null
                  THEN Len(cur[1].moves)
             ELSE step]
       /\ isPlayingHistory' = [isPlayingHistory EXCEPT ![c] = IF stopped THEN FALSE ELSE playing]
       /\ playbackInterval' = [playbackInterval EXCEPT ![c] = IF stopped THEN Null ELSE interval]

\* the effects after a handler that leaves the history view's cells alone
RenderReplaySame(c) ==
    RenderReplay(c, selectedHistorySession[c], historyStep[c], isPlayingHistory[c],
                 playbackInterval[c])

(***************************************************************************)
(* The end-of-game animation: triggerGameEndAnimation and its timers.  An  *)
(* element of animations is one running sequence; step 0 waits for the     *)
(* 100 ms timer, step 1 for the last timer of the chain.  Sequences that   *)
(* agree in every field and in their step are one element.                 *)
(***************************************************************************)
LastMove(session) ==
    IF session.moves = <<>> THEN Null ELSE Some(session.moves[Len(session.moves)])

TriggerFrozen(frozen, preMoveSession) ==
    IF preMoveSession # Null
    THEN Some([pieces |-> preMoveSession[1].pieces, session |-> preMoveSession[1]])
    ELSE frozen

TriggerOverride(ov, finishedSession) ==
    IF LastMove(finishedSession) # Null
    THEN Some([id |-> LastMove(finishedSession)[1].pieceId,
               position |-> LastMove(finishedSession)[1].from])
    ELSE ov

TriggerAnimations(anims, finishedSession, preMoveSession, isPassive) ==
    anims \cup {[lastMove |-> LastMove(finishedSession),
                 hasPre |-> preMoveSession # Null,
                 isPassive |-> isPassive,
                 step |-> IF LastMove(finishedSession) # Null THEN 0 ELSE 1]}

(***************************************************************************)
(* App.tsx handlers.  finishGame, handleMove and startNewGame set          *)
(* currentSession, store, now, checkAlert, frozenBoardState,               *)
(* replayPieceOverride, animations, playerSide and view; the caller sets   *)
(* the Board cells and the timers.                                         *)
(***************************************************************************)
\* the finished session without its resultReason
finishedSessionNoReason(base, winner, reason, t) ==
    [base EXCEPT !.status = "finished", !.winner = winner,
                 !.resultReason = None, !.lastUpdated = t]

\* the finished session without its winner
finishedSessionNoWinner(base, winner, reason, t) ==
    [base EXCEPT !.status = "finished", !.winner = None,
                 !.resultReason = reason, !.lastUpdated = t]

finishedSession(base, winner, reason, t) ==
    [base EXCEPT !.status = "finished", !.winner = winner,
                 !.resultReason = reason, !.lastUpdated = t]

finishGame(c, base, winner, reason, preMoveSession) ==
    LET fin == finishedSession(base, winner, reason, now)
    IN /\ currentSession' = [currentSession EXCEPT ![c] = Some(fin)]
       /\ store' = persistGame(store, fin)
       /\ now' = now + 1
       /\ IF winner # "draw"
          THEN /\ frozenBoardState' =
                    [frozenBoardState EXCEPT ![c] = TriggerFrozen(@, preMoveSession)]
               /\ replayPieceOverride' =
                    [replayPieceOverride EXCEPT ![c] = TriggerOverride(@, fin)]
               /\ animations' =
                    [animations EXCEPT ![c] = TriggerAnimations(@, fin, preMoveSession, FALSE)]
          ELSE UNCHANGED <<frozenBoardState, replayPieceOverride, animations>>
       /\ RenderAlert(c, "")
       /\ historyList' = [historyList EXCEPT ![c] = fetchHistory(store')]
       /\ UNCHANGED <<playerSide, view>>

\* the move is applied but not recorded
updatedSessionNoAppend(session, move, t) ==
    [session EXCEPT !.pieces = applyMove(session.pieces, move),
                    !.turn = Opponent(session.turn),
                    !.lastUpdated = t,
                    !.status = "active"]

\* the move is recorded but the turn stays
updatedSessionSameTurn(session, move, t) ==
    [session EXCEPT !.pieces = applyMove(session.pieces, move),
                    !.moves = Append(session.moves, move),
                    !.lastUpdated = t,
                    !.status = "active"]

updatedSession(session, move, t) ==
    [session EXCEPT !.pieces = applyMove(session.pieces, move),
                    !.turn = Opponent(session.turn),
                    !.moves = Append(session.moves, move),
                    !.lastUpdated = t,
                    !.status = "active"]

\* the outcomes after the two rejections of handleMove
AcceptedOutcome(cur, move) ==
    LET newPieces == applyMove(cur[1].pieces, move)
    IN IF findGeneral(newPieces, RED) = NoPiece \/ findGeneral(newPieces, BLACK) = NoPiece
       THEN "capture"
       ELSE LET evaluation == evaluateGameState(newPieces, Opponent(cur[1].turn))
            IN IF evaluation.checkmated THEN "checkmate"
               ELSE IF evaluation.stalemated THEN "stalemate"
               ELSE "continue"

\* handleMove without the test of the mover's own check
MoveOutcomeNoSelfCheck(cur, side, vw, move) ==
    IF cur = Null \/ vw = "history" THEN "ignored"
    ELSE IF side # None /\ side # cur[1].turn THEN "out of turn"
    ELSE AcceptedOutcome(cur, move)

\* handleMove without the test of the turn
MoveOutcomeNoTurnCheck(cur, side, vw, move) ==
    IF cur = Null \/ vw = "history" THEN "ignored"
    ELSE IF isInCheck(applyMove(cur[1].pieces, move), cur[1].turn) THEN "still in check"
    ELSE AcceptedOutcome(cur, move)

\* handleMove consulting evaluateGameState before it looks for the Generals
MoveOutcomeEvaluateFirst(cur, side, vw, move) ==
    IF cur = Null \/ vw = "history" THEN "ignored"
    ELSE IF side # None /\ side # cur[1].turn THEN "out of turn"
    ELSE LET newPieces == applyMove(cur[1].pieces, move)
             evaluation == evaluateGameState(newPieces, Opponent(cur[1].turn))
         IN IF isInCheck(newPieces, cur[1].turn) THEN "still in check"
            ELSE IF evaluation.checkmated THEN "checkmate"
            ELSE IF evaluation.stalemated THEN "stalemate"
            ELSE IF findGeneral(newPieces, RED) = NoPiece \/ findGeneral(newPieces, BLACK) = NoPiece
                 THEN "capture"
            ELSE "continue"

\* handleMove testing the check of the opponent in place of the mover's own
MoveOutcomeChecksOpponent(cur, side, vw, move) ==
    IF cur = Null \/ vw = "history" THEN "ignored"
    ELSE IF side # None /\ side # cur[1].turn THEN "out of turn"
    ELSE IF isInCheck(applyMove(cur[1].pieces, move), Opponent(cur[1].turn))
         THEN "still in check"
    ELSE AcceptedOutcome(cur, move)

\* which return of handleMove a call takes
MoveOutcome(cur, side, vw, move) ==
    IF cur = Null \/ vw = "history" THEN "ignored"
    ELSE IF side # None /\ side # cur[1].turn THEN "out of turn"
    ELSE LET newPieces == applyMove(cur[1].pieces, move)
         IN IF isInCheck(newPieces, cur[1].turn) THEN "still in check"
            ELSE IF findGeneral(newPieces, RED) = NoPiece \/ findGeneral(newPieces, BLACK) = NoPiece
                 THEN "capture"
            ELSE LET evaluation == evaluateGameState(newPieces, Opponent(cur[1].turn))
                 IN IF evaluation.checkmated THEN "checkmate"
                    ELSE IF evaluation.stalemated THEN "stalemate"
                    ELSE "continue"

Accepted == {"capture", "checkmate", "stalemate", "continue"}

handleMove(c, move) ==
    LET cur == currentSession[c]
        upd == updatedSession(cur[1], move, now)
        unchangedSession ==
            UNCHANGED <<currentSession, store, now, frozenBoardState, replayPieceOverride,
                        animations, playerSide, view, historyList>>
    IN \E outcome \in {MoveOutcome(cur, playerSide[c], view[c], move)} :
       /\ outcome \in Accepted => now < MaxTime
       /\ CASE outcome = "ignored" ->
                 unchangedSession /\ UNCHANGED checkAlert
            [] outcome = "out of turn" ->
                 unchangedSession /\ RenderAlert(c, "not your turn")
            [] outcome = "still in check" ->
                 unchangedSession /\ RenderAlert(c, "illegal: still in check")
            [] outcome = "capture" ->
                 finishGame(c, upd,
                            IF findGeneral(upd.pieces, RED) # NoPiece THEN RED ELSE BLACK,
                            "capture", cur)
            [] outcome = "checkmate" ->
                 finishGame(c, upd, cur[1].turn, "checkmate", cur)
            [] outcome = "stalemate" ->
                 finishGame(c, upd, "draw", "stalemate", Null)
            [] outcome = "continue" ->
                 /\ currentSession' = [currentSession EXCEPT ![c] = Some(upd)]
                 /\ store' = persistGame(store, upd)
                 /\ now' = now + 1
                 /\ RenderAlert(c, IF isInCheck(upd.pieces, upd.turn)
                                   THEN InCheckAlert(upd.turn) ELSE "")
                 /\ UNCHANGED <<frozenBoardState, replayPieceOverride, animations,
                                playerSide, view, historyList>>

startNewGame(c) ==
    /\ now < MaxTime
    /\ currentSession' = [currentSession EXCEPT ![c] = Some(NewSession(now))]
    /\ store' = persistGame(store, NewSession(now))
    /\ now' = now + 1
    /\ playerSide' = [playerSide EXCEPT ![c] = IF @ = None THEN RED ELSE @]
    /\ view' = [view EXCEPT ![c] = "play"]
    /\ historyList' = [historyList EXCEPT ![c] = fetchHistory(store')]
    /\ RenderAlert(c, "")

(***************************************************************************)
(* Actions.                                                                *)
(***************************************************************************)
\* refreshData taking whatever session of another id or stamp the store sends
adoptsFetchedAnyStamp(session, prev) ==
    /\ session # Null
    /\ prev # Null

\* refreshData: session.id !== prev.id || session.lastUpdated > prev.lastUpdated,
\* for a session and a prev that are not null
adoptsFetched(session, prev) ==
    /\ session # Null
    /\ prev # Null
    /\ (session[1].id # prev[1].id \/ session[1].lastUpdated > prev[1].lastUpdated)

\* refreshData once the three GETs are answered with session and history
refreshFrom(c, session, history) ==
      /\ LET prev == currentSession[c]
             \* history.find(h => h.id === prev.id), finished and not drawn
             viaHistory ==
                 IF prev # Null /\ prev[1].status = "active"
                 THEN {h \in history : h.id = prev[1].id /\ h.status = "finished" /\ h.winner # "draw"}
                 ELSE {}
             adopt == adoptsFetched(session, prev)
             direct ==
                 /\ adopt
                 /\ session[1].status = "finished"
                 /\ prev[1].status = "active"
                 /\ session[1].winner # "draw"
             autoInit == session = Null /\ prev = Null
             nextSession ==
                 IF session # Null
                 THEN (IF prev = Null \/ adopt THEN session ELSE prev)
                 ELSE (IF autoInit THEN Some(NewSession(now)) ELSE Null)
             frozen1 == IF viaHistory # {} THEN TriggerFrozen(frozenBoardState[c], prev)
                        ELSE frozenBoardState[c]
             override1 == IF viaHistory # {}
                          THEN TriggerOverride(replayPieceOverride[c], CHOOSE h \in viaHistory : TRUE)
                          ELSE replayPieceOverride[c]
             anims1 == IF viaHistory # {}
                       THEN TriggerAnimations(animations[c], CHOOSE h \in viaHistory : TRUE, prev, TRUE)
                       ELSE animations[c]
         IN /\ autoInit => now < MaxTime
            /\ currentSession' = [currentSession EXCEPT ![c] =
                                      IF nextSession # Null THEN nextSession ELSE prev]
            \* no side is remembered for a game this browser has not shown before
            /\ playerSide' = [playerSide EXCEPT ![c] =
                                  IF nextSession # Null /\ @ = None THEN nextSession[1].turn ELSE @]
            /\ store' = IF autoInit THEN persistGame(store, NewSession(now)) ELSE store
            /\ now' = IF autoInit THEN now + 1 ELSE now
            /\ frozenBoardState' = [frozenBoardState EXCEPT ![c] =
                                      IF direct THEN TriggerFrozen(frozen1, prev) ELSE frozen1]
            /\ replayPieceOverride' = [replayPieceOverride EXCEPT ![c] =
                                      IF direct THEN TriggerOverride(override1, session[1]) ELSE override1]
            /\ animations' = [animations EXCEPT ![c] =
                                      IF direct THEN TriggerAnimations(anims1, session[1], prev, TRUE)
                                      ELSE anims1]
      /\ historyList' = [historyList EXCEPT ![c] = history]
      /\ RenderAlert(c, checkAlert[c])
      /\ UNCHANGED <<view, gameOverTimers>>
      /\ RenderBoard(c, selectedPieceId[c], validMoves[c])
      /\ RenderReplaySame(c)

\* refreshData.  The three GETs are answered from one state of the store and the
\* response is processed before the client handles anything else.
refreshData(c) ==
    /\ \E session \in fetchCurrentGame(store) : refreshFrom(c, session, fetchHistory(store))
    /\ UNCHANGED pollResponses

\* Board.handlePieceInteraction on a piece of the colour to move
SelectPiece(c, i) ==
    /\ view[c] = "play"
    /\ Shown(c) # Null
    /\ canMove(c)
    /\ i \in ClickPieces \cap DOMAIN BoardPieces(c)
    /\ PieceColor(i) = Shown(c)[1].turn
    \* the user picks up a piece to take it to one of ClickSquares
    /\ \E t \in TargetSquares(c) : IsValidMove(i, BoardPieces(c), t)
    /\ IF selectedPieceId[c] = i
       THEN /\ selectedPieceId' = [selectedPieceId EXCEPT ![c] = NoPiece]
            /\ validMoves' = [validMoves EXCEPT ![c] = {}]
       ELSE /\ selectedPieceId' = [selectedPieceId EXCEPT ![c] = i]
            /\ validMoves' = [validMoves EXCEPT ![c] = getValidMoves(i, BoardPieces(c))]
    /\ UNCHANGED <<store, now, currentSession, playerSide, view, checkAlert, gameOverTimers,
                   frozenBoardState, replayPieceOverride, animations,
                   historyList, replayVars, pollResponses>>

\* the Move that Board.handleTargetInteraction builds for a click on targetPos
BoardMove(c, targetPos) ==
    [pieceId |-> selectedPieceId[c],
     from |-> BoardPieces(c)[selectedPieceId[c]],
     to |-> targetPos,
     capturedPieceId |-> getPieceAt(BoardPieces(c), targetPos)]

\* Board.handleTargetInteraction on a square of validMoves (a move indicator, or
\* an enemy piece through handlePieceInteraction), then App.handleMove
TargetClick(c, targetPos) ==
    /\ view[c] = "play"
    /\ canMove(c)
    /\ selectedPieceId[c] # NoPiece
    /\ targetPos \in validMoves[c] \cap TargetSquares(c)
    /\ Shown(c) # Null
    /\ selectedPieceId[c] \in DOMAIN BoardPieces(c)
    /\ handleMove(c, BoardMove(c, targetPos))
    /\ LET targetPiece == getPieceAt(BoardPieces(c), targetPos)
       IN gameOverTimers' = [gameOverTimers EXCEPT ![c] =
             IF targetPiece # NoPiece /\ PieceType(targetPiece) = GENERAL
             THEN @ \cup {[winner |-> PieceColor(selectedPieceId[c]), session |-> currentSession[c]]}
             ELSE @]
    /\ RenderBoard(c, NoPiece, {})
    /\ RenderReplaySame(c)
    /\ UNCHANGED pollResponses

\* Board's setTimeout(() => onGameOver(piece.color), 200): App.handleGameOver of the
\* render in which the click happened, so with that render's currentSession
GameOverTimer(c, timer) ==
    /\ timer \in gameOverTimers[c]
    /\ gameOverTimers' = [gameOverTimers EXCEPT ![c] = @ \ {timer}]
    /\ IF timer.session = Null \/ timer.session[1].status = "finished"
       THEN UNCHANGED <<store, now, currentSession, playerSide, view, checkAlert,
                        frozenBoardState, replayPieceOverride, animations, historyList>>
       ELSE finishGame(c, timer.session[1], timer.winner,
                          IF timer.winner = "draw" THEN "stalemate" ELSE "capture", Null)
    /\ RenderBoard(c, selectedPieceId[c], validMoves[c])
    /\ RenderReplaySame(c)
    /\ UNCHANGED pollResponses

\* prev.pieces.filter(p => p.position.x !== to.x || p.position.y !== to.y)
RemoveAt(pieces, pos) ==
    ListOf([i \in {j \in DOMAIN pieces : pieces[j] # pos} |-> pieces[i]])

\* the 100 ms timer of triggerGameEndAnimation
AnimationStep(c, a) ==
    /\ a \in animations[c]
    /\ a.step = 0
    /\ LET lastMove == a.lastMove[1]
       IN /\ replayPieceOverride' = [replayPieceOverride EXCEPT ![c] =
                                        Some([id |-> lastMove.pieceId, position |-> lastMove.to])]
          /\ frozenBoardState' = [frozenBoardState EXCEPT ![c] =
                IF ~a.hasPre THEN @
                ELSE IF @ = Null THEN Null
                ELSE Some([pieces |-> RemoveAt(@[1].pieces, lastMove.to),
                           session |-> @[1].session])]
          /\ animations' = [animations EXCEPT ![c] = (@ \ {a}) \cup {[a EXCEPT !.step = 1]}]
    /\ UNCHANGED <<store, now, currentSession, playerSide, view, checkAlert,
                   gameOverTimers, historyList, replayVars, pollResponses>>
    /\ RenderBoard(c, selectedPieceId[c], validMoves[c])

\* the last timer of the chain: clear the overrides, then startNewGame unless passive
AnimationEnd(c, a) ==
    /\ a \in animations[c]
    /\ a.step = 1
    /\ animations' = [animations EXCEPT ![c] = @ \ {a}]
    /\ replayPieceOverride' = [replayPieceOverride EXCEPT ![c] = Null]
    /\ frozenBoardState' = [frozenBoardState EXCEPT ![c] = Null]
    /\ IF a.isPassive
       THEN UNCHANGED <<store, now, currentSession, playerSide, view, checkAlert, historyList>>
       ELSE startNewGame(c)
    /\ UNCHANGED <<gameOverTimers, pollResponses>>
    /\ RenderBoard(c, selectedPieceId[c], validMoves[c])
    /\ RenderReplaySame(c)

\* PlayView: the restart button, rendered while the shown session is finished
RestartClick(c) ==
    /\ view[c] = "play"
    /\ Shown(c) # Null
    /\ Shown(c)[1].status = "finished"
    /\ startNewGame(c)
    /\ UNCHANGED <<gameOverTimers, frozenBoardState, replayPieceOverride, animations,
                   pollResponses>>
    /\ RenderBoard(c, selectedPieceId[c], validMoves[c])
    /\ RenderReplaySame(c)

Next ==
    \E c \in Clients :
        \/ refreshData(c)
        \/ \E i \in ClickPieces : SelectPiece(c, i)
        \/ \E targetPos \in ClickSquares \cup FlankSquares : TargetClick(c, targetPos)
        \/ \E timer \in gameOverTimers[c] : GameOverTimer(c, timer)
        \/ \E a \in animations[c] : AnimationStep(c, a)
        \/ \E a \in animations[c] : AnimationEnd(c, a)
        \/ RestartClick(c)

Spec == Init /\ [][Next]_vars

(***************************************************************************)
(* The same clients when the store may also hold the game on the flank.    *)
(***************************************************************************)
InitFlank ==
    /\ \E g \in StoredGames \cup {FlankGame} : store = (1 :> PlayedSession(1, g))
    /\ now = 2
    /\ currentSession = [c \in Clients |-> Null]
    /\ playerSide = [c \in Clients |-> None]
    /\ view = [c \in Clients |-> "play"]
    /\ checkAlert = [c \in Clients |-> ""]
    /\ selectedPieceId = [c \in Clients |-> NoPiece]
    /\ validMoves = [c \in Clients |-> {}]
    /\ gameOverTimers = [c \in Clients |-> {}]
    /\ frozenBoardState = [c \in Clients |-> Null]
    /\ replayPieceOverride = [c \in Clients |-> Null]
    /\ animations = [c \in Clients |-> {}]
    /\ InitReplay

SpecFlank == InitFlank /\ [][Next]_vars

(***************************************************************************)
(* The same clients when a poll takes time: the store answers the three    *)
(* GETs of refreshData from its state at that moment, and the client goes  *)
(* on with the response later, after whatever it has handled meanwhile.    *)
(* The response of a poll arrives before the next poll (4 s later) is sent. *)
(***************************************************************************)
PollRequest(c) ==
    /\ pollResponses[c] = {}
    /\ \E session \in fetchCurrentGame(store) :
          pollResponses' = [pollResponses EXCEPT ![c] =
                               {[session |-> session, history |-> fetchHistory(store)]}]
    /\ UNCHANGED <<store, now, currentSession, playerSide, view, checkAlert,
                   selectedPieceId, validMoves, gameOverTimers,
                   frozenBoardState, replayPieceOverride, animations,
                   historyList, replayVars>>

PollResponse(c, r) ==
    /\ r \in pollResponses[c]
    /\ pollResponses' = [pollResponses EXCEPT ![c] = @ \ {r}]
    /\ refreshFrom(c, r.session, r.history)

NextPoll ==
    \E c \in Clients :
        \/ PollRequest(c)
        \/ \E r \in pollResponses[c] : PollResponse(c, r)
        \/ \E i \in ClickPieces : SelectPiece(c, i)
        \/ \E targetPos \in ClickSquares \cup FlankSquares : TargetClick(c, targetPos)
        \/ \E timer \in gameOverTimers[c] : GameOverTimer(c, timer)
        \/ \E a \in animations[c] : AnimationStep(c, a)
        \/ \E a \in animations[c] : AnimationEnd(c, a)
        \/ RestartClick(c)

SpecPoll == Init /\ [][NextPoll]_vars

(***************************************************************************)
(* The history view.                                                       *)
(***************************************************************************)
\* the session client c replays, as the render sees it
Replayed(c) == activeReplaySession(selectedHistorySession[c], currentSession[c])

\* a handler of the header or of the history view: nothing of the game changes
ReplayOnly(c) ==
    /\ UNCHANGED <<store, now, currentSession, playerSide, checkAlert, gameOverTimers,
                   frozenBoardState, replayPieceOverride, animations,
                   historyList, pollResponses>>
    /\ RenderBoard(c, selectedPieceId[c], validMoves[c])

\* Header: onClick={() => setView('history')} and onClick={() => setView('play')}
SetView(c, v) ==
    /\ v # view[c]
    /\ view' = [view EXCEPT ![c] = v]
    /\ ReplayOnly(c)
    /\ RenderReplaySame(c)

\* HistoryView: onClick={() => setSelectedHistorySession(game)} on a game of the list
SelectHistorySession(c, game) ==
    /\ view[c] = "history"
    /\ game \in historyList[c]
    /\ selectedHistorySession[c] # Some(game)
    /\ UNCHANGED view
    /\ ReplayOnly(c)
    /\ RenderReplay(c, Some(game), historyStep[c], isPlayingHistory[c], playbackInterval[c])

\* HistoryView: onClick={() => setSelectedHistorySession(null)} on the LIVE entry
SelectLive(c) ==
    /\ view[c] = "history"
    /\ selectedHistorySession[c] # Null
    /\ UNCHANGED view
    /\ ReplayOnly(c)
    /\ RenderReplay(c, Null, historyStep[c], isPlayingHistory[c], playbackInterval[c])

\* the arguments the buttons and the move list of HistoryView hand to jumpToStep
JumpArguments(c) ==
    {0, historyStep[c] - 1, historyStep[c] + 1}
        \cup (IF Replayed(c) = Null THEN {} ELSE 1..Len(Replayed(c)[1].moves))

\* jumpToStep(step)
JumpToStep(c, step) ==
    /\ view[c] = "history"
    /\ Replayed(c) # Null
    /\ UNCHANGED view
    /\ ReplayOnly(c)
    /\ LET safeStep == Max2(0, Min2(step, Len(Replayed(c)[1].moves)))
       IN RenderReplay(c, selectedHistorySession[c], safeStep, FALSE,
                       IF isPlayingHistory[c] THEN Null ELSE playbackInterval[c])

\* togglePlayback(): the interval keeps the session of the render of the click
TogglePlayback(c) ==
    /\ view[c] = "history"
    /\ Replayed(c) # Null
    /\ UNCHANGED view
    /\ ReplayOnly(c)
    /\ IF isPlayingHistory[c]
       THEN RenderReplay(c, selectedHistorySession[c], historyStep[c], FALSE, Null)
       ELSE RenderReplay(c, selectedHistorySession[c],
                         IF historyStep[c] >= Len(Replayed(c)[1].moves) THEN 0 ELSE historyStep[c],
                         TRUE, Replayed(c))

\* the callback of the interval of togglePlayback, every 1000 ms
PlaybackTick(c) ==
    /\ playbackInterval[c] # Null
    /\ UNCHANGED view
    /\ ReplayOnly(c)
    /\ IF historyStep[c] >= Len(playbackInterval[c][1].moves)
       THEN RenderReplay(c, selectedHistorySession[c], historyStep[c], FALSE, Null)
       ELSE RenderReplay(c, selectedHistorySession[c], historyStep[c] + 1,
                         isPlayingHistory[c], playbackInterval[c])

Views == {"play", "history"}

\* the clients whose user opens the history view: one of the two browsers is
\* used for watching as well as for playing, the other for playing only
Viewers == {"c2"}

\* what the user of client c does in the header and in the history view
HistoryClick(c) ==
    \/ \E v \in Views : SetView(c, v)
    \/ \E game \in historyList[c] : SelectHistorySession(c, game)
    \/ SelectLive(c)
    \/ \E step \in JumpArguments(c) : JumpToStep(c, step)
    \/ TogglePlayback(c)

NextReplay ==
    \E c \in Clients :
        \/ refreshData(c)
        \/ \E i \in ClickPieces : SelectPiece(c, i)
        \/ \E targetPos \in ClickSquares \cup FlankSquares : TargetClick(c, targetPos)
        \/ \E timer \in gameOverTimers[c] : GameOverTimer(c, timer)
        \/ \E a \in animations[c] : AnimationStep(c, a)
        \/ \E a \in animations[c] : AnimationEnd(c, a)
        \/ c \in Viewers /\ HistoryClick(c)
        \/ PlaybackTick(c)

\* the clients find no game, or one of the two short games; none of these is
\* drawn, and the board of a finished game is shown while its animation runs only,
\* so the button for a new game is never on the screen
InitReplayStore ==
    /\ \/ store = <<>>
       \/ \E g \in {AdvisorGame, CannonGame} : store = (1 :> PlayedSession(1, g))
    /\ now = 2
    /\ currentSession = [c \in Clients |-> Null]
    /\ playerSide = [c \in Clients |-> None]
    /\ view = [c \in Clients |-> "play"]
    /\ checkAlert = [c \in Clients |-> ""]
    /\ selectedPieceId = [c \in Clients |-> NoPiece]
    /\ validMoves = [c \in Clients |-> {}]
    /\ gameOverTimers = [c \in Clients |-> {}]
    /\ frozenBoardState = [c \in Clients |-> Null]
    /\ replayPieceOverride = [c \in Clients |-> Null]
    /\ animations = [c \in Clients |-> {}]
    /\ InitReplay

SpecReplay == InitReplayStore /\ [][NextReplay]_vars

(***************************************************************************)
(* The history view of a user who starts the playback and then lets it     *)
(* run: the clicks of the header and of the history view are those of a    *)
(* client whose playback is not running.  The interval of togglePlayback   *)
(* fires every 1000 ms as long as it is not cleared.                       *)
(***************************************************************************)
NextPlayback ==
    \E c \in Clients :
        \/ refreshData(c)
        \/ \E i \in ClickPieces : SelectPiece(c, i)
        \/ \E targetPos \in ClickSquares \cup FlankSquares : TargetClick(c, targetPos)
        \/ \E timer \in gameOverTimers[c] : GameOverTimer(c, timer)
        \/ \E a \in animations[c] : AnimationStep(c, a)
        \/ \E a \in animations[c] : AnimationEnd(c, a)
        \/ c \in Viewers /\ ~isPlayingHistory[c] /\ HistoryClick(c)
        \/ PlaybackTick(c)

SpecPlayback ==
    /\ InitReplayStore
    /\ [][NextPlayback]_vars
    /\ \A c \in Clients : WF_vars(PlaybackTick(c))

(***************************************************************************)
(* handleMove as an entry point of its own: a caller hands it any move of  *)
(* a piece of the session to a square, whether or not Board would offer    *)
(* it, on either side.                                                     *)
(***************************************************************************)
ApiPieces == {25, 1}
ApiSquares == {Pos(4, 0), Pos(4, 1), Pos(4, 9)}

\* the Move of piece i to square t, its capturedPieceId read from the session
ApiMove(c, i, t) ==
    [pieceId |-> i,
     from |-> currentSession[c][1].pieces[i],
     to |-> t,
     capturedPieceId |-> getPieceAt(currentSession[c][1].pieces, t)]

SubmitMove(c, i, t) ==
    /\ currentSession[c] # Null
    /\ i \in DOMAIN currentSession[c][1].pieces
    /\ handleMove(c, ApiMove(c, i, t))
    /\ UNCHANGED <<gameOverTimers, pollResponses>>
    /\ RenderBoard(c, selectedPieceId[c], validMoves[c])
    /\ RenderReplaySame(c)

NextApi ==
    \E c \in Clients :
        \/ refreshData(c)
        \/ \E i \in ApiPieces, t \in ApiSquares : SubmitMove(c, i, t)
        \/ \E a \in animations[c] : AnimationStep(c, a)
        \/ \E a \in animations[c] : AnimationEnd(c, a)

SpecApi == Init /\ [][NextApi]_vars

(***************************************************************************)
(* The rules engine on its own: the positions its functions are given are  *)
(* those the stored games go through, and those applyMove makes of them    *)
(* for a move of a piece to a square, whether or not getValidMoves offers  *)
(* it (handleMove simulates the move it is handed before it judges it).    *)
(***************************************************************************)
\* the number of moves a run applies to the position it starts from
MaxPlies == 1

\* the pieces moved (a soldier, a chariot, a cannon, a general) and the squares
\* they are moved to
RulePieces == {29, 24, 25, 20}
RuleSquares == {Pos(3, 3), Pos(4, 0), Pos(4, 1), Pos(4, 4)}

\* a game in which the Red elephant has gone to the river, a Black cannon
\* standing on one of its eyes
ElephantGame ==
    << Mv(18, 2, 9, 4, 7, NoPiece), Mv(9, 1, 2, 1, 6, NoPiece),
       Mv(18, 4, 7, 2, 5, NoPiece), Mv(11, 0, 3, 0, 4, NoPiece) >>

\* the histories a run starts from: the stored games, and their first plies
RuleStarts ==
    {SubSeq(g, 1, Min2(k, Len(g))) : g \in StoredGames, k \in {0, 5, 6}}
        \cup StoredGames \cup {ElephantGame}

InitRules ==
    /\ \E moves \in RuleStarts : store = (1 :> PlayedSession(1, moves))
    /\ now = 2
    /\ currentSession = [c \in Clients |-> Null]
    /\ playerSide = [c \in Clients |-> None]
    /\ view = [c \in Clients |-> "play"]
    /\ checkAlert = [c \in Clients |-> ""]
    /\ selectedPieceId = [c \in Clients |-> NoPiece]
    /\ validMoves = [c \in Clients |-> {}]
    /\ gameOverTimers = [c \in Clients |-> {}]
    /\ frozenBoardState = [c \in Clients |-> Null]
    /\ replayPieceOverride = [c \in Clients |-> Null]
    /\ animations = [c \in Clients |-> {}]
    /\ InitReplay

\* the Move of piece i to square t in the position, taking what stands there
AnyMove(pieces, i, t) ==
    [pieceId |-> i, from |-> pieces[i], to |-> t, capturedPieceId |-> getPieceAt(pieces, t)]

\* applyMove of a move of piece i to square t, kept as the session's position
ApplyAnyMove(i, t) ==
    LET session == store[1]
    IN /\ session.lastUpdated - session.startTime < MaxPlies
       /\ i \in DOMAIN session.pieces
       /\ session.pieces[i] # t
       /\ store' = persistGame(store, updatedSession(session, AnyMove(session.pieces, i, t),
                                                     session.lastUpdated + 1))
       /\ UNCHANGED <<now, currentSession, playerSide, view, checkAlert, selectedPieceId,
                      validMoves, gameOverTimers, frozenBoardState, replayPieceOverride,
                      animations, historyList, replayVars, pollResponses>>

NextRules == \E i \in RulePieces, t \in RuleSquares : ApplyAnyMove(i, t)

SpecRules == InitRules /\ [][NextRules]_vars

\* the position the rules engine is given
Position == store[1].pieces

(***************************************************************************)
(* Properties.                                                             *)
(***************************************************************************)
\* C1: in every client's session and in every row of the store, pieces is
\* the replay of moves from the initial layout
C1_ReconstructionEquivalence ==
    /\ \A c \in Clients : currentSession[c] # Null =>
           reconstructBoard(currentSession[c][1].moves) = currentSession[c][1].pieces
    /\ \A id \in DOMAIN store : reconstructBoard(store[id].moves) = store[id].pieces

\* a client holds, and the store has, a session with a move made by handleMove
C1_Witness ==
    \E c \in Clients : \E id \in DOMAIN store :
        /\ currentSession[c] # Null
        /\ currentSession[c][1].id = id
        /\ currentSession[c][1].moves = store[id].moves
        /\ store[id].moves \notin StoredGames \cup {<<>>}

\* C2: a click that reaches handleMove leaves every finished row of the store
\* finished, with its winner, resultReason, pieces and moves
C2_FinishedIsTerminal ==
    [][\A c \in Clients : \A t \in ClickSquares :
          TargetClick(c, t) =>
              \A id \in DOMAIN store :
                  store[id].status = "finished" =>
                      /\ store'[id].status = "finished"
                      /\ store'[id].winner = store[id].winner
                      /\ store'[id].resultReason = store[id].resultReason
                      /\ store'[id].pieces = store[id].pieces
                      /\ store'[id].moves = store[id].moves]_vars

\* C3: a click whose move handleMove accepts takes the piece to a square of
\* getValidMoves in the session's pieces before the move, the mover not left in check
C3_AppendedMovesAreLegal ==
    [][\A c \in Clients : \A t \in ClickSquares :
          (TargetClick(c, t) /\ currentSession'[c] # currentSession[c]) =>
              LET cur == currentSession[c][1]
                  move == BoardMove(c, t)
              IN /\ move.pieceId \in DOMAIN cur.pieces
                 /\ IsValidMove(move.pieceId, cur.pieces, move.to)
                 /\ ~isInCheck(applyMove(cur.pieces, move), cur.turn)]_vars

\* C4: a click whose move leaves the side to move in check changes neither the
\* client's session nor the store; read from the effect: a click that changes
\* either has made a move that does not leave the side to move in check
C4_SelfCheckRejected ==
    [][\A c \in Clients : \A t \in ClickSquares :
          (/\ currentSession'[c] # currentSession[c] \/ store' # store
           /\ TargetClick(c, t))
          => ~isInCheck(applyMove(currentSession[c][1].pieces, BoardMove(c, t)),
                        currentSession[c][1].turn)]_vars

\* the rejection has happened: its alert is shown
C4_Witness == \E c \in Clients : checkAlert[c] = "illegal: still in check"

\* C5: a move handed to handleMove by a client whose side is not the side to
\* move changes neither the client's session nor the store; read from the
\* effect: a call that changes either comes from a client without a side or
\* with the side to move
C5_OutOfTurnRejected ==
    [][\A c \in Clients :
          (currentSession'[c] # currentSession[c] \/ store' # store) =>
              \A i \in ApiPieces : \A t \in ApiSquares :
                  SubmitMove(c, i, t) =>
                      \/ playerSide[c] = None
                      \/ playerSide[c] = currentSession[c][1].turn]_vars

\* the rejection has happened: its alert is shown
C5_Witness == \E c \in Clients : checkAlert[c] = "not your turn"

\* the square t holds the General opposing piece i in the session of client c
TakesGeneral(c, i, t) ==
    LET target == getPieceAt(currentSession[c][1].pieces, t)
    IN /\ target # NoPiece
       /\ PieceType(target) = GENERAL
       /\ PieceColor(target) # PieceColor(i)

\* the session of client c after the step is finished by capture, won by the
\* colour of piece i
EndsByCapture(c, i) ==
    /\ currentSession'[c] # Null
    /\ currentSession'[c][1].status = "finished"
    /\ currentSession'[c][1].resultReason = "capture"
    /\ currentSession'[c][1].winner = PieceColor(i)
    /\ store'[currentSession'[c][1].id] = currentSession'[c][1]

\* C6 as stated: every move handed to handleMove onto the opposing General ends
\* the game by capture for the mover
C6_CaptureAlwaysEnds ==
    [][\A c \in Clients : \A i \in ApiPieces : \A t \in ApiSquares :
          (/\ currentSession[c] # Null
           /\ i \in DOMAIN currentSession[c][1].pieces
           /\ TakesGeneral(c, i, t)
           /\ SubmitMove(c, i, t))
          => EndsByCapture(c, i)]_vars

\* C6: a move onto the opposing General that handleMove rejects neither as out
\* of turn nor as leaving the mover in check ends the game by capture for the
\* mover, whatever evaluateGameState makes of the position
C6_AcceptedCaptureEnds ==
    [][\A c \in Clients : \A i \in ApiPieces : \A t \in ApiSquares :
          (/\ currentSession[c] # Null
           /\ i \in DOMAIN currentSession[c][1].pieces
           /\ TakesGeneral(c, i, t)
           /\ view[c] = "play"
           /\ (playerSide[c] = None \/ playerSide[c] = currentSession[c][1].turn)
           /\ ~isInCheck(applyMove(currentSession[c][1].pieces, ApiMove(c, i, t)),
                         currentSession[c][1].turn)
           /\ SubmitMove(c, i, t))
          => EndsByCapture(c, i)]_vars

\* a game has ended by the capture of a General
C6_Witness ==
    \E c \in Clients :
        /\ currentSession[c] # Null
        /\ currentSession[c][1].resultReason = "capture"
        /\ Cardinality(DOMAIN currentSession[c][1].pieces) < 32
        /\ \/ findGeneral(currentSession[c][1].pieces, RED) = NoPiece
           \/ findGeneral(currentSession[c][1].pieces, BLACK) = NoPiece

\* the click of client c on t is a move that handleMove accepts (the session
\* of c changes) and that leaves both Generals on the board
AcceptsWithGenerals(c, t) ==
    /\ currentSession'[c] # currentSession[c]
    /\ TargetClick(c, t)
    /\ LET cur == currentSession[c][1]
           newPieces == applyMove(cur.pieces, BoardMove(c, t))
       IN /\ ~isInCheck(newPieces, cur.turn)
          /\ findGeneral(newPieces, RED) # NoPiece
          /\ findGeneral(newPieces, BLACK) # NoPiece

\* C7: an accepted move after which the opponent is in check and has no legal
\* move finishes the session by checkmate for the mover, the move last in moves
C7_CheckmateFinishes ==
    [][\A c \in Clients : \A t \in ClickSquares :
          (/\ AcceptsWithGenerals(c, t)
           /\ LET cur == currentSession[c][1]
                  newPieces == applyMove(cur.pieces, BoardMove(c, t))
              IN /\ isInCheck(newPieces, Opponent(cur.turn))
                 /\ ~hasAnyLegalMove(newPieces, Opponent(cur.turn)))
          => /\ currentSession'[c][1].status = "finished"
             /\ currentSession'[c][1].winner = currentSession[c][1].turn
             /\ currentSession'[c][1].resultReason = "checkmate"
             /\ currentSession'[c][1].moves =
                    Append(currentSession[c][1].moves, BoardMove(c, t))
             /\ store'[currentSession'[c][1].id] = currentSession'[c][1]]_vars

\* a game has ended by checkmate
C7_Witness ==
    \E c \in Clients :
        /\ currentSession[c] # Null
        /\ currentSession[c][1].status = "finished"
        /\ currentSession[c][1].resultReason = "checkmate"

\* C8: an accepted move after which the opponent is not in check and has no
\* legal move finishes the session as a draw by stalemate
C8_StalemateFinishes ==
    [][\A c \in Clients : \A t \in ClickSquares :
          (/\ AcceptsWithGenerals(c, t)
           /\ LET cur == currentSession[c][1]
                  newPieces == applyMove(cur.pieces, BoardMove(c, t))
              IN /\ ~isInCheck(newPieces, Opponent(cur.turn))
                 /\ ~hasAnyLegalMove(newPieces, Opponent(cur.turn)))
          => /\ currentSession'[c][1].status = "finished"
             /\ currentSession'[c][1].winner = "draw"
             /\ currentSession'[c][1].resultReason = "stalemate"
             /\ store'[currentSession'[c][1].id] = currentSession'[c][1]]_vars

\* a game has ended by stalemate
C8_Witness ==
    \E c \in Clients :
        /\ currentSession[c] # Null
        /\ currentSession[c][1].status = "finished"
        /\ currentSession[c][1].winner = "draw"
        /\ currentSession[c][1].resultReason = "stalemate"

\* C9: an accepted move after which the opponent has a legal move keeps the
\* session active, gives the turn to the opponent, appends the move, applies it
\* to pieces, and keeps id, startTime, name and players
C9_ContinueFrame ==
    [][\A c \in Clients : \A t \in ClickSquares :
          (/\ AcceptsWithGenerals(c, t)
           /\ LET cur == currentSession[c][1]
              IN hasAnyLegalMove(applyMove(cur.pieces, BoardMove(c, t)), Opponent(cur.turn)))
          => LET cur == currentSession[c][1]
                 new == currentSession'[c][1]
             IN /\ new.status = "active"
                /\ new.turn = Opponent(cur.turn)
                /\ new.moves = Append(cur.moves, BoardMove(c, t))
                /\ new.pieces = applyMove(cur.pieces, BoardMove(c, t))
                /\ new.id = cur.id
                /\ new.startTime = cur.startTime
                /\ new.name = cur.name
                /\ new.players = cur.players
                /\ store'[new.id] = new]_vars

\* a client has made a move after which its game goes on
C9_Witness ==
    \E c \in Clients :
        /\ currentSession[c] # Null
        /\ currentSession[c][1].status = "active"
        /\ currentSession[c][1].moves # <<>>
        /\ currentSession[c][1].lastUpdated > currentSession[c][1].startTime

\* the squares of the canonical layout for a kind and a colour
CanonicalSquares(type, color) ==
    LET back == IF color = RED THEN 9 ELSE 0
        cannonY == IF color = RED THEN 7 ELSE 2
        soldierY == IF color = RED THEN 6 ELSE 3
    IN CASE type = GENERAL -> {Pos(4, back)}
         [] type = ADVISOR -> {Pos(3, back), Pos(5, back)}
         [] type = ELEPHANT -> {Pos(2, back), Pos(6, back)}
         [] type = HORSE -> {Pos(1, back), Pos(7, back)}
         [] type = CHARIOT -> {Pos(0, back), Pos(8, back)}
         [] type = CANNON -> {Pos(1, cannonY), Pos(7, cannonY)}
         [] type = SOLDIER -> {Pos(0, soldierY), Pos(2, soldierY), Pos(4, soldierY),
                               Pos(6, soldierY), Pos(8, soldierY)}

\* C10: a row that createNewGame adds to the store is active, Red to move,
\* without moves, winner or resultReason, and holds the canonical layout: 32
\* pieces, 16 a colour, every kind of a colour on exactly its starting squares
C10_NewGameLayout ==
    [][\A id \in DOMAIN store' \ DOMAIN store :
          LET s == store'[id]
              ofKind(type, color) ==
                  {i \in DOMAIN s.pieces : PieceType(i) = type /\ PieceColor(i) = color}
          IN /\ s.status = "active"
             /\ s.turn = RED
             /\ s.moves = <<>>
             /\ s.winner = None
             /\ s.resultReason = None
             /\ Cardinality(DOMAIN s.pieces) = 32
             /\ \A color \in {RED, BLACK} :
                   /\ Cardinality({i \in DOMAIN s.pieces : PieceColor(i) = color}) = 16
                   /\ \A type \in {GENERAL, ADVISOR, ELEPHANT, HORSE, CHARIOT, CANNON, SOLDIER} :
                         /\ {s.pieces[i] : i \in ofKind(type, color)} = CanonicalSquares(type, color)
                         /\ Cardinality(ofKind(type, color)) =
                                Cardinality(CanonicalSquares(type, color))
             /\ \A i \in DOMAIN s.pieces : isWithinBoard(s.pieces[i])
             /\ Cardinality({s.pieces[i] : i \in DOMAIN s.pieces}) = 32]_vars

\* a game made by createNewGame is in the store and shown by a client
C10_Witness ==
    \E c \in Clients : \E id \in DOMAIN store :
        /\ id >= 2
        /\ store[id] = NewSession(id)
        /\ currentSession[c] = Some(store[id])

\* a session carries a winner and a resultReason exactly when it is finished
WinnerIffFinished(s) ==
    /\ (s.winner # None) <=> (s.status = "finished")
    /\ (s.resultReason # None) <=> (s.status = "finished")

\* C11: in every client's session and in every row of the store, winner and
\* resultReason are present exactly when status is finished
C11_WinnerIffFinished ==
    /\ \A c \in Clients : currentSession[c] # Null => WinnerIffFinished(currentSession[c][1])
    /\ \A id \in DOMAIN store : WinnerIffFinished(store[id])

\* a game has been finished with a winner while another game is active in the store
C11_Witness ==
    \E id \in DOMAIN store : \E other \in DOMAIN store :
        /\ store[id].status = "finished"
        /\ store[id].winner \in {RED, BLACK, "draw"}
        /\ store[other].status = "active"
        /\ store[other].winner = None

\* the move list a is the beginning of the move list b
IsPrefix(a, b) == Len(a) <= Len(b) /\ \A k \in 1..Len(a) : b[k] = a[k]

\* C12: a click that reaches handleMove leaves every stored move list a
\* prefix of the move list stored for the same id after it
C12_StoredMovesAppendOnly ==
    [][\A c \in Clients : \A t \in ClickSquares :
          (/\ store' # store
           /\ TargetClick(c, t))
          => \A id \in DOMAIN store :
                 /\ id \in DOMAIN store'
                 /\ IsPrefix(store[id].moves, store'[id].moves)]_vars

\* the moves of a history that carry a capturedPieceId
Captures(moves) == {k \in 1..Len(moves) : moves[k].capturedPieceId # NoPiece}

\* the pieces of a session are initial pieces, as many as the history leaves
PiecesMatchHistory(s) ==
    /\ DOMAIN s.pieces \subseteq PieceIds
    /\ Cardinality(DOMAIN s.pieces) = Cardinality(PieceIds) - Cardinality(Captures(s.moves))

\* C13: a click whose move handleMove accepts leaves in every stored session
\* only initial pieces, 32 less the captures of its history, and none that the
\* session stored for that id had lost
C13_PieceConservation ==
    [][\A c \in Clients : \A t \in ClickSquares :
          (/\ store' # store
           /\ TargetClick(c, t))
          => \A id \in DOMAIN store :
                 /\ PiecesMatchHistory(store'[id])
                 /\ DOMAIN store'[id].pieces \subseteq DOMAIN store[id].pieces]_vars

\* every session of a client and of the store holds initial pieces only, 32
\* less the captures of its history
SessionsMatchHistory ==
    /\ \A c \in Clients : currentSession[c] # Null => PiecesMatchHistory(currentSession[c][1])
    /\ \A id \in DOMAIN store : PiecesMatchHistory(store[id])

\* C14: no destination the board offers for the selected piece leaves the
\* mover's own colour in check once the move is applied to the pieces shown
C14_OfferedMovesAvoidSelfCheck ==
    \A c \in Clients :
        (/\ selectedPieceId[c] # NoPiece
         /\ Shown(c) # Null
         /\ selectedPieceId[c] \in DOMAIN BoardPieces(c))
        => \A t \in validMoves[c] :
               ~isInCheck(applyMove(BoardPieces(c), BoardMove(c, t)),
                          PieceColor(selectedPieceId[c]))

\* both Generals stand on one file with no piece on a square between them
GeneralsFaceOff(pieces) ==
    \E r \in DOMAIN pieces, b \in DOMAIN pieces :
        /\ PieceType(r) = GENERAL /\ PieceColor(r) = RED
        /\ PieceType(b) = GENERAL /\ PieceColor(b) = BLACK
        /\ pieces[r].x = pieces[b].x
        /\ ~\E k \in DOMAIN pieces :
               /\ pieces[k].x = pieces[r].x
               /\ \/ pieces[r].y < pieces[k].y /\ pieces[k].y < pieces[b].y
                  \/ pieces[b].y < pieces[k].y /\ pieces[k].y < pieces[r].y

\* a generated move of a piece of colour c leads to a position in which c is
\* not in check
HasEscape(pieces, c) ==
    \E i \in DOMAIN pieces : \E t \in BoardSquares :
        /\ PieceColor(i) = c
        /\ IsValidMove(i, pieces, t)
        /\ ~isInCheck(applyMove(pieces, AnyMove(pieces, i, t)), c)

\* C15: checkmated is true exactly when c is in check and no generated move of
\* c leads out of check, stalemated exactly when c is not in check and no such
\* move exists, and the two are never both true
C15_Verdicts ==
    \A c \in {RED, BLACK} :
        LET e == evaluateGameState(Position, c)
        IN /\ e.inCheck <=> isInCheck(Position, c)
           /\ e.checkmated <=> (isInCheck(Position, c) /\ ~HasEscape(Position, c))
           /\ e.stalemated <=> (~isInCheck(Position, c) /\ ~HasEscape(Position, c))
           /\ ~(e.checkmated /\ e.stalemated)

\* a colour with both Generals on the board is in check and every generated
\* move of it leaves it in check
C15_Witness ==
    \E c \in {RED, BLACK} :
        /\ findGeneral(Position, RED) # NoPiece
        /\ findGeneral(Position, BLACK) # NoPiece
        /\ isInCheck(Position, c)
        /\ \E i \in DOMAIN Position : PieceColor(i) = c /\ getValidMoves(i, Position) # {}
        /\ evaluateGameState(Position, c).checkmated

\* a colour is not in check and every generated move of it puts it in check
StalematedPosition ==
    \E c \in {RED, BLACK} :
        /\ ~isInCheck(Position, c)
        /\ \E i \in DOMAIN Position : PieceColor(i) = c /\ getValidMoves(i, Position) # {}
        /\ evaluateGameState(Position, c).stalemated

\* C16: isInCheck is true for a colour exactly when the colour has no General
\* on the board, or the two Generals face each other, or a piece of the other
\* colour has the square of the colour's General among its destinations; when
\* the Generals face each other it is true for both colours
C16_InCheckCases ==
    /\ \A c \in {RED, BLACK} :
          isInCheck(Position, c) <=>
              \/ ~\E g \in DOMAIN Position : PieceType(g) = GENERAL /\ PieceColor(g) = c
              \/ GeneralsFaceOff(Position)
              \/ \E g \in DOMAIN Position, i \in DOMAIN Position :
                    /\ PieceType(g) = GENERAL /\ PieceColor(g) = c
                    /\ PieceColor(i) # c
                    /\ Position[g] \in getValidMoves(i, Position)
    /\ GeneralsFaceOff(Position) => isInCheck(Position, RED) /\ isInCheck(Position, BLACK)

\* the Generals face each other and no piece has a General's square among its
\* destinations
C16_Witness ==
    /\ GeneralsFaceOff(Position)
    /\ isInCheck(Position, RED)
    /\ isInCheck(Position, BLACK)
    /\ \A g \in DOMAIN Position : PieceType(g) = GENERAL =>
           \A i \in DOMAIN Position : Position[g] \notin getValidMoves(i, Position)

\* a colour has lost its General
MissingGeneral ==
    \E c \in {RED, BLACK} : findGeneral(Position, c) = NoPiece /\ isInCheck(Position, c)

\* a colour's General stands on a destination of a piece of the other colour,
\* the Generals not facing each other
ThreatenedGeneral ==
    \E g \in DOMAIN Position, i \in DOMAIN Position :
        /\ PieceType(g) = GENERAL
        /\ PieceColor(i) # PieceColor(g)
        /\ Position[g] \in getValidMoves(i, Position)
        /\ ~GeneralsFaceOff(Position)

\* C17: no destination getValidMoves returns for a piece leaves, once the piece
\* stands there and what stood there is removed, the two Generals facing each other
C17_NoFaceOffDestination ==
    \A i \in DOMAIN Position :
        \A t \in getValidMoves(i, Position) :
            ~GeneralsFaceOff(applyMove(Position, AnyMove(Position, i, t)))

\* the switch pushes for a piece a square that would leave the Generals facing
\* each other, and getValidMoves returns other squares for it but not that one
C17_Witness ==
    \E i \in DOMAIN Position : \E t \in BoardSquares :
        /\ Pushes(i, Position, t)
        /\ GeneralsFaceOff(applyMove(Position, AnyMove(Position, i, t)))
        /\ t \notin getValidMoves(i, Position)
        /\ getValidMoves(i, Position) # {}

\* the squares from p on, one step of direction d after another, up to the
\* k-th, k >= 1
Steps(p, d, k) == {Pos(p.x + d[1] * j, p.y + d[2] * j) : j \in 1 .. k}

\* the occupied squares among them
Occupied(pieces, squares) == {b \in squares : getPieceAt(pieces, b) # NoPiece}

\* the square k steps from the cannon in direction d is a destination: it is
\* empty with no occupied square before it, or it holds an enemy and is the
\* second occupied square of the direction
CannonDestination(pieces, i, d, k) ==
    LET t == Pos(pieces[i].x + d[1] * k, pieces[i].y + d[2] * k)
        before == Occupied(pieces, Steps(pieces[i], d, k - 1))
        target == getPieceAt(pieces, t)
    IN \/ target = NoPiece /\ before = {}
       \/ /\ target # NoPiece
          /\ PieceColor(target) # PieceColor(i)
          /\ Cardinality(before) = 1

\* C18: along each orthogonal direction the destinations generated for a
\* Cannon are exactly the empty squares before the first occupied square and
\* the second occupied square when it holds an enemy, and getValidMoves
\* returns no other square for it
C18_CannonDestinations ==
    \A i \in DOMAIN Position :
        PieceType(i) = CANNON =>
            LET moves == CannonMoves(i, Position)
                returned == getValidMoves(i, Position)
            IN /\ \A d \in OrthoDirs :
                     LET loop == CannonLoop(i, Position, d, 1, FALSE)
                     IN \A k \in 1 .. BOARD_ROWS :
                           LET t == Pos(Position[i].x + d[1] * k, Position[i].y + d[2] * k)
                               destination == CannonDestination(Position, i, d, k)
                           IN isWithinBoard(t) =>
                                 /\ t \in loop <=> destination
                                 /\ CannonPushes(i, Position, t) <=> destination
               /\ \A t \in moves : isWithinBoard(t) /\ OnRay(Position[i], t)
               /\ returned \subseteq moves

\* a Cannon has, in one direction, an empty destination, an enemy it takes over
\* its mount, and in another direction an empty square behind its mount
C18_Witness ==
    \E i \in DOMAIN Position : \E d \in OrthoDirs, e \in OrthoDirs : \E k, m, n \in 1 .. BOARD_ROWS :
        /\ PieceType(i) = CANNON
        /\ k = 1 /\ m > 2
        /\ LET p == Position[i]
               free == Pos(p.x + d[1] * k, p.y + d[2] * k)
               taken == Pos(p.x + d[1] * m, p.y + d[2] * m)
               behind == Pos(p.x + e[1] * n, p.y + e[2] * n)
           IN /\ free \in getValidMoves(i, Position)
              /\ getPieceAt(Position, free) = NoPiece
              /\ taken \in getValidMoves(i, Position)
              /\ getPieceAt(Position, taken) # NoPiece
              /\ isWithinBoard(behind)
              /\ getPieceAt(Position, behind) = NoPiece
              /\ Occupied(Position, Steps(p, e, n - 1)) # {}
              /\ behind \notin getValidMoves(i, Position)

\* the leg of the Horse on p for its jump to t: the square next to p along the
\* axis on which t is two away
Leg(p, t) ==
    IF Abs(t.x - p.x) = 2 THEN Pos(p.x + (t.x - p.x) \div 2, p.y)
    ELSE Pos(p.x, p.y + (t.y - p.y) \div 2)

\* t is one along one axis and two along the other away from p
IsHorseJump(p, t) ==
    \/ Abs(t.x - p.x) = 1 /\ Abs(t.y - p.y) = 2
    \/ Abs(t.x - p.x) = 2 /\ Abs(t.y - p.y) = 1

\* C19: every destination getValidMoves returns for a Horse is one of the
\* eight jumps and has an empty leg, and every jump to a square of the board
\* with an empty leg, no friendly piece on it and no facing Generals after it
\* is returned, whatever stands on the other destinations
C19_HorseDestinations ==
    \A i \in DOMAIN Position :
        PieceType(i) = HORSE =>
            LET returned == getValidMoves(i, Position)
                p == Position[i]
            IN /\ \A t \in returned :
                     /\ IsHorseJump(p, t)
                     /\ getPieceAt(Position, Leg(p, t)) = NoPiece
               /\ \A t \in BoardSquares :
                     (/\ IsHorseJump(p, t)
                      /\ getPieceAt(Position, Leg(p, t)) = NoPiece
                      /\ ~\E j \in DOMAIN Position : Position[j] = t /\ PieceColor(j) = PieceColor(i)
                      /\ ~GeneralsFaceOff(applyMove(Position, AnyMove(Position, i, t))))
                     => t \in returned

\* a Horse has a jump whose leg is occupied, a jump with an empty leg to a
\* square a friendly piece holds, and a jump that is returned
C19_Witness ==
    \E i \in DOMAIN Position :
        /\ PieceType(i) = HORSE
        /\ \E blocked \in BoardSquares :
              /\ IsHorseJump(Position[i], blocked)
              /\ getPieceAt(Position, Leg(Position[i], blocked)) # NoPiece
              /\ getPieceAt(Position, blocked) = NoPiece
              /\ blocked \notin getValidMoves(i, Position)
        /\ \E held \in BoardSquares :
              /\ IsHorseJump(Position[i], held)
              /\ getPieceAt(Position, Leg(Position[i], held)) = NoPiece
              /\ getPieceAt(Position, held) # NoPiece
              /\ PieceColor(getPieceAt(Position, held)) = PieceColor(i)
        /\ \E free \in BoardSquares :
              /\ IsHorseJump(Position[i], free)
              /\ free \in getValidMoves(i, Position)

\* the eye of the Elephant on p for its step to t: the square midway
Eye(p, t) == Pos((p.x + t.x) \div 2, (p.y + t.y) \div 2)

\* t is two files and two ranks away from p
IsElephantStep(p, t) == Abs(t.x - p.x) = 2 /\ Abs(t.y - p.y) = 2

\* t lies on the side of the river of the colour
OwnSide(color, t) == IF color = RED THEN t.y >= 5 ELSE t.y <= 4

\* C20: every destination generated for an Elephant, returned by getValidMoves
\* or not, is two squares diagonally away, on the Elephant's side of the river,
\* and has an empty eye
C20_ElephantDestinations ==
    \A i \in DOMAIN Position :
        PieceType(i) = ELEPHANT =>
            LET returned == getValidMoves(i, Position)
            IN \A t \in BoardSquares :
                  (Pushes(i, Position, t) \/ t \in returned) =>
                      /\ IsElephantStep(Position[i], t)
                      /\ OwnSide(PieceColor(i), t)
                      /\ getPieceAt(Position, Eye(Position[i], t)) = NoPiece

\* an Elephant at the river has a destination returned, none across the river
\* though an enemy stands there behind an empty eye, and none behind an
\* occupied eye
C20_Witness ==
    \E i \in DOMAIN Position :
        /\ PieceType(i) = ELEPHANT
        /\ getValidMoves(i, Position) # {}
        /\ \E across \in BoardSquares :
              /\ IsElephantStep(Position[i], across)
              /\ ~OwnSide(PieceColor(i), across)
              /\ getPieceAt(Position, Eye(Position[i], across)) = NoPiece
              /\ getPieceAt(Position, across) # NoPiece
              /\ PieceColor(getPieceAt(Position, across)) # PieceColor(i)
              /\ across \notin getValidMoves(i, Position)
        /\ \E behind \in BoardSquares :
              /\ IsElephantStep(Position[i], behind)
              /\ OwnSide(PieceColor(i), behind)
              /\ getPieceAt(Position, Eye(Position[i], behind)) # NoPiece
              /\ getPieceAt(Position, behind) = NoPiece
              /\ behind \notin getValidMoves(i, Position)

\* the Soldier of the colour on p stands across the river
AcrossRiver(color, p) == IF color = RED THEN p.y <= 4 ELSE p.y >= 5

\* t is the square in front of the Soldier of the colour on p
IsForwardStep(color, p, t) ==
    t.x = p.x /\ t.y = (IF color = RED THEN p.y - 1 ELSE p.y + 1)

\* t is the square to the left or to the right of p
IsSideStep(p, t) == t.y = p.y /\ Abs(t.x - p.x) = 1

\* C21: every destination generated for a Soldier, returned by getValidMoves or
\* not, is the square in front of it or, for a Soldier across the river only,
\* the square to its left or right
C21_SoldierDestinations ==
    \A i \in DOMAIN Position :
        PieceType(i) = SOLDIER =>
            LET returned == getValidMoves(i, Position)
                p == Position[i]
            IN \A t \in BoardSquares :
                  (Pushes(i, Position, t) \/ t \in returned) =>
                      \/ IsForwardStep(PieceColor(i), p, t)
                      \/ AcrossRiver(PieceColor(i), p) /\ IsSideStep(p, t)

\* a Soldier across the river is given a square beside it, and a Soldier of the
\* same colour that has not crossed is given the square in front of it only,
\* the squares beside it being empty
C21_Witness ==
    \E i \in DOMAIN Position, j \in DOMAIN Position :
        /\ PieceType(i) = SOLDIER /\ PieceType(j) = SOLDIER
        /\ PieceColor(i) = PieceColor(j)
        /\ AcrossRiver(PieceColor(i), Position[i])
        /\ \E t \in getValidMoves(i, Position) : IsSideStep(Position[i], t)
        /\ ~AcrossRiver(PieceColor(j), Position[j])
        /\ \E t \in getValidMoves(j, Position) : IsForwardStep(PieceColor(j), Position[j], t)
        /\ \E t \in BoardSquares :
              /\ IsSideStep(Position[j], t)
              /\ getPieceAt(Position, t) = NoPiece
              /\ t \notin getValidMoves(j, Position)

\* the square k steps from the chariot in direction d is a destination: no
\* square before it is occupied, and it is empty or holds an enemy
ChariotDestination(pieces, i, d, k) ==
    LET t == Pos(pieces[i].x + d[1] * k, pieces[i].y + d[2] * k)
        target == getPieceAt(pieces, t)
    IN /\ Occupied(pieces, Steps(pieces[i], d, k - 1)) = {}
       /\ target # NoPiece => PieceColor(target) # PieceColor(i)

\* C22: along each orthogonal direction the destinations generated for a
\* Chariot are exactly the empty squares before the first occupied square and
\* that square when it holds an enemy, and getValidMoves returns no other
\* square for it
C22_ChariotDestinations ==
    \A i \in DOMAIN Position :
        PieceType(i) = CHARIOT =>
            LET moves == ChariotMoves(i, Position)
                returned == getValidMoves(i, Position)
            IN /\ \A d \in OrthoDirs :
                     LET loop == ChariotLoop(i, Position, d, 1)
                     IN \A k \in 1 .. BOARD_ROWS :
                           LET t == Pos(Position[i].x + d[1] * k, Position[i].y + d[2] * k)
                               destination == ChariotDestination(Position, i, d, k)
                           IN isWithinBoard(t) =>
                                 /\ t \in loop <=> destination
                                 /\ ChariotPushes(i, Position, t) <=> destination
               /\ \A t \in moves : isWithinBoard(t) /\ OnRay(Position[i], t)
               /\ returned \subseteq moves

\* a Chariot has, in one direction, an empty destination and behind it an enemy
\* it takes, with a square of the board behind that enemy
C22_Witness ==
    \E i \in DOMAIN Position : \E d \in OrthoDirs : \E m \in 2 .. BOARD_ROWS :
        /\ PieceType(i) = CHARIOT
        /\ LET p == Position[i]
               free == Pos(p.x + d[1], p.y + d[2])
               taken == Pos(p.x + d[1] * m, p.y + d[2] * m)
               beyond == Pos(p.x + d[1] * (m + 1), p.y + d[2] * (m + 1))
           IN /\ isWithinBoard(beyond)
              /\ free \in getValidMoves(i, Position)
              /\ getPieceAt(Position, free) = NoPiece
              /\ taken \in getValidMoves(i, Position)
              /\ getPieceAt(Position, taken) # NoPiece
              /\ beyond \notin getValidMoves(i, Position)

\* t lies in the palace of the colour
InOwnPalace(color, t) ==
    /\ t.x \in 3 .. 5
    /\ t.y \in (IF color = RED THEN 7 .. 9 ELSE 0 .. 2)

\* C23: every destination generated for a General, returned by getValidMoves or
\* not, is one orthogonal step away, every destination generated for an Advisor
\* one diagonal step away, and both lie in the palace of the mover's colour
C23_PalaceDestinations ==
    \A i \in DOMAIN Position :
        PieceType(i) \in {GENERAL, ADVISOR} =>
            LET returned == getValidMoves(i, Position)
                p == Position[i]
            IN \A t \in BoardSquares :
                  (Pushes(i, Position, t) \/ t \in returned) =>
                      /\ InOwnPalace(PieceColor(i), t)
                      /\ IF PieceType(i) = GENERAL
                         THEN Abs(t.x - p.x) + Abs(t.y - p.y) = 1
                         ELSE Abs(t.x - p.x) = 1 /\ Abs(t.y - p.y) = 1

\* a General stands in the palace of the other colour, an empty square of that
\* palace next to it, and is given no destination, while the other General and
\* an Advisor are given destinations
C23_Witness ==
    \E g \in DOMAIN Position, h \in DOMAIN Position, a \in DOMAIN Position :
        /\ PieceType(g) = GENERAL /\ PieceType(h) = GENERAL /\ PieceType(a) = ADVISOR
        /\ InOwnPalace(PieceColor(h), Position[g])
        /\ PieceColor(h) # PieceColor(g)
        /\ \E t \in BoardSquares :
              /\ Abs(t.x - Position[g].x) + Abs(t.y - Position[g].y) = 1
              /\ InOwnPalace(PieceColor(h), t)
              /\ getPieceAt(Position, t) = NoPiece
        /\ getValidMoves(g, Position) = {}
        /\ getValidMoves(h, Position) # {}
        /\ getValidMoves(a, Position) # {}

\* the movement rule of piece i takes it from its square to t, whatever stands on t
RuleReaches(pieces, i, t) ==
    LET p == pieces[i]
        color == PieceColor(i)
        between == Cardinality(Occupied(pieces, RayBefore(p, t)))
    IN CASE PieceType(i) = GENERAL ->
              Abs(t.x - p.x) + Abs(t.y - p.y) = 1 /\ InOwnPalace(color, t)
         [] PieceType(i) = ADVISOR ->
              Abs(t.x - p.x) = 1 /\ Abs(t.y - p.y) = 1 /\ InOwnPalace(color, t)
         [] PieceType(i) = ELEPHANT ->
              /\ IsElephantStep(p, t) /\ OwnSide(color, t)
              /\ getPieceAt(pieces, Eye(p, t)) = NoPiece
         [] PieceType(i) = HORSE ->
              IsHorseJump(p, t) /\ getPieceAt(pieces, Leg(p, t)) = NoPiece
         [] PieceType(i) = CHARIOT -> OnRay(p, t) /\ between = 0
         [] PieceType(i) = CANNON ->
              /\ OnRay(p, t)
              /\ between = (IF getPieceAt(pieces, t) = NoPiece THEN 0 ELSE 1)
         [] PieceType(i) = SOLDIER ->
              \/ IsForwardStep(color, p, t)
              \/ AcrossRiver(color, p) /\ IsSideStep(p, t)

\* a piece of the colour stands on t
HoldsColor(pieces, color, t) == \E j \in DOMAIN pieces : pieces[j] = t /\ PieceColor(j) = color

\* u lies behind t on the ray from p through t
Beyond(p, t, u) == OnRay(p, t) /\ OnRay(p, u) /\ t \in RayBefore(p, u)

\* getValidMoves returns for piece i no square a piece of its own colour holds,
\* and for a Chariot or a Cannon no square behind an enemy it returns
NoFriendNoneBeyond(pieces, i, returned) ==
    /\ \A t \in returned : ~HoldsColor(pieces, PieceColor(i), t)
    /\ PieceType(i) \in {CHARIOT, CANNON} =>
          \A t \in returned :
              HoldsColor(pieces, Opponent(PieceColor(i)), t) =>
                  \A u \in returned : ~Beyond(pieces[i], t, u)

\* C24 as stated: getValidMoves returns no square held by the mover's colour,
\* returns every square held by an enemy that the movement rule reaches, and,
\* for a Chariot or a Cannon, no square behind an enemy it takes
C24_CapturesReturned ==
    \A i \in DOMAIN Position :
        LET returned == getValidMoves(i, Position)
        IN /\ NoFriendNoneBeyond(Position, i, returned)
           /\ \A t \in BoardSquares :
                 (/\ HoldsColor(Position, Opponent(PieceColor(i)), t)
                  /\ RuleReaches(Position, i, t))
                 => t \in returned

\* C24: getValidMoves returns no square held by the mover's colour, generates
\* every square held by an enemy that the movement rule reaches and returns it
\* unless the capture would leave the two Generals facing each other, and, for a
\* Chariot or a Cannon, returns no square behind an enemy it takes
C24_CapturesGenerated ==
    \A i \in DOMAIN Position :
        LET returned == getValidMoves(i, Position)
        IN /\ NoFriendNoneBeyond(Position, i, returned)
           /\ \A t \in BoardSquares :
                 (/\ HoldsColor(Position, Opponent(PieceColor(i)), t)
                  /\ RuleReaches(Position, i, t))
                 => /\ Pushes(i, Position, t)
                    /\ t \in returned
                          <=> ~GeneralsFaceOff(applyMove(Position, AnyMove(Position, i, t)))

\* a piece reaches by its rule a square an enemy holds, and taking it would
\* leave the Generals facing each other; it reaches another square an enemy
\* holds, which is returned, and a square a piece of its own colour holds
C24_Witness ==
    \E i \in DOMAIN Position :
        /\ \E t \in BoardSquares :
              /\ HoldsColor(Position, Opponent(PieceColor(i)), t)
              /\ RuleReaches(Position, i, t)
              /\ t \notin getValidMoves(i, Position)
        /\ \E t \in getValidMoves(i, Position) :
              HoldsColor(Position, Opponent(PieceColor(i)), t)
        /\ \E t \in BoardSquares :
              /\ HoldsColor(Position, PieceColor(i), t)
              /\ RuleReaches(Position, i, t)

\* the squares within two steps of the board, on it or off it
NearSquares ==
    {Pos(sx, sy) : sx \in (0 - 2) .. (BOARD_COLS + 1), sy \in (0 - 2) .. (BOARD_ROWS + 1)}

\* C25: every square that is in the list getValidMoves returns, for every piece
\* of the position, has x in 0..8 and y in 0..9
C25_DestinationsOnBoard ==
    \A i \in DOMAIN Position :
        \A t \in NearSquares :
            (t.x \in 0 .. 8 /\ t.y \in 0 .. 9) \/ ~IsValidMove(i, Position, t)

\* a piece on the last rank and a piece on a side file, each with a step of its
\* rule leading off the board, are given destinations
C25_Witness ==
    \E i \in DOMAIN Position, j \in DOMAIN Position :
        /\ PieceType(i) = SOLDIER
        /\ Position[i].y = (IF PieceColor(i) = RED THEN 0 ELSE 9)
        /\ getValidMoves(i, Position) # {}
        /\ PieceType(j) \in {HORSE, CHARIOT, CANNON}
        /\ Position[j].x \in {0, 8}
        /\ getValidMoves(j, Position) # {}

\* the ids a move names as its captured piece, for the mover i going to t: none,
\* the piece on t, the mover itself, and either General
CapturedIds(pieces, i, t) == {NoPiece, getPieceAt(pieces, t), i, 4, 20}

C27_ReconstructIsFold ==
    /\ reconstructBoard(<<>>) = getInitialPieces
    /\ Cardinality(DOMAIN reconstructBoard(<<>>)) = 32
    /\ LET ms == store[1].moves
       IN /\ \A k \in 1 .. Len(ms) :
                getHistoryPieces(store[1], k)
                    = applyMove(getHistoryPieces(store[1], k - 1), ms[k])
          /\ \A i \in RulePieces : \A t \in RuleSquares :
                i \in DOMAIN Position =>
                    LET m == AnyMove(Position, i, t)
                    IN reconstructBoard(Append(ms, m)) = applyMove(reconstructBoard(ms), m)

\* the session's history has a move that no stored game has, after a capture
C27_Witness ==
    /\ store[1].lastUpdated > store[1].startTime
    /\ Len(store[1].moves) > 1
    /\ \E k \in 1 .. (Len(store[1].moves) - 1) : store[1].moves[k].capturedPieceId # NoPiece
    /\ getHistoryPieces(store[1], Len(store[1].moves)) = Position
    /\ getHistoryPieces(store[1], Len(store[1].moves) - 1) # Position

\* C28: in the initial layout evaluateGameState finds neither colour in check,
\* checkmated or stalemated
C28_InitialLayoutQuiet ==
    Position = getInitialPieces =>
        \A c \in {RED, BLACK} :
            evaluateGameState(Position, c)
                = [inCheck |-> FALSE, checkmated |-> FALSE, stalemated |-> FALSE]

\* the position is the initial layout of a session without moves, the two
\* Generals on one file
C28_Witness ==
    /\ store[1].moves = <<>>
    /\ Position = getInitialPieces
    /\ Position[findGeneral(Position, RED)].x = Position[findGeneral(Position, BLACK)].x

\* the colour that made the last move of the session is not in check
MoverNotInCheck(s) == s.moves # <<>> => ~isInCheck(s.pieces, Opponent(s.turn))

\* C29: in every client's session and every row of the store that has a move,
\* the colour that moved last, the opposite of turn, is not in check
C29_MoverNotInCheck ==
    /\ \A c \in Clients : currentSession[c] # Null => MoverNotInCheck(currentSession[c][1])
    /\ \A id \in DOMAIN store : MoverNotInCheck(store[id])

\* a client whose colour was in check in a stored game has made a move that
\* handleMove accepted and stored: its colour is out of check
C29_Witness ==
    \E c \in Clients :
        /\ currentSession[c] # Null
        /\ LET s == currentSession[c][1]
           IN /\ Len(s.moves) > 1
              /\ SubSeq(s.moves, 1, Len(s.moves) - 1) \in StoredGames
              /\ isInCheck(reconstructBoard(SubSeq(s.moves, 1, Len(s.moves) - 1)),
                           Opponent(s.turn))
              /\ ~isInCheck(s.pieces, Opponent(s.turn))
              /\ store[s.id] = s

\* the client's poll finds in the history, finished with a winner, the session
\* the client still holds as active: refreshData calls triggerGameEndAnimation
FinishSeenInHistory(c) ==
    /\ currentSession[c] # Null
    /\ currentSession[c][1].status = "active"
    /\ \E h \in fetchHistory(store) :
          /\ h.id = currentSession[c][1].id
          /\ h.status = "finished"
          /\ h.winner # "draw"

\* the animation that a poll of the client started for the session the client
\* holds is running: the board is frozen on that session and a passive sequence
\* waits for the end of its chain
PassiveAnimationRunning(c) ==
    /\ currentSession[c] # Null
    /\ frozenBoardState[c] # Null
    /\ frozenBoardState[c][1].session.id = currentSession[c][1].id
    /\ \E a \in animations[c] : a.isPassive /\ a.step = 1

\* C30: a poll that starts the passive end-of-game animation for the session
\* the client holds is not made while an animation that an earlier poll
\* started for that session is running
C30_AnimationOncePerFinish ==
    [][\A c \in Clients :
          (/\ animations'[c] # animations[c]
           /\ \E a \in animations'[c] \ animations[c] : a.isPassive /\ a.step = 0
           /\ FinishSeenInHistory(c))
          => ~PassiveAnimationRunning(c)]_vars

\* the session handleMove made of a General-capturing move: finished, its last
\* move the taking of a General
FinishedByGeneralCapture(s) ==
    /\ s.status = "finished"
    /\ s.moves # <<>>
    /\ LET last == s.moves[Len(s.moves)]
       IN /\ last.capturedPieceId # NoPiece
          /\ PieceType(last.capturedPieceId) = GENERAL
          /\ s.pieces = reconstructBoard(s.moves)

\* C31: when Board's delayed onGameOver callback fires after a General-capturing
\* move that handleMove has turned into a finished session, the client's session
\* and the stored row stay as they are: the finishing move, the post-move pieces,
\* the winner and the resultReason are kept
C31_GameOverAfterFinishIsNoOp ==
    [][\A c \in Clients :
          (/\ gameOverTimers'[c] # gameOverTimers[c]
           /\ \E timer \in gameOverTimers[c] : gameOverTimers'[c] = gameOverTimers[c] \ {timer}
           /\ currentSession[c] # Null
           /\ FinishedByGeneralCapture(currentSession[c][1])
           /\ store[currentSession[c][1].id] = currentSession[c][1])
          => /\ currentSession'[c] = currentSession[c]
             /\ store' = store]_vars

\* the running end-of-game sequences of client c whose last timer calls
\* startNewGame
CreatingSequences(c) == {a \in animations[c] : ~a.isPassive}

\* the stored games that ended with a decisive result
DecisiveGames == {i \in DOMAIN store : store[i].status = "finished" /\ store[i].winner # "draw"}

\* C32: one new game is created for a game that ended with a decisive result:
\* the end-of-game sequences that are running and end in startNewGame are no
\* more than the games that ended so, and a client runs at most one of them
C32_OneNewGamePerFinish ==
    /\ Cardinality({<<c, a>> \in Clients \X UNION {animations[c] : c \in Clients} :
                        a \in CreatingSequences(c)})
            <= Cardinality(DecisiveGames)
    /\ \A c \in Clients : Cardinality(CreatingSequences(c)) <= 1

\* the sessions of a state: every client's and every stored one
Sessions == {currentSession[c][1] : c \in {d \in Clients : currentSession[d] # Null}}
                \cup {store[i] : i \in DOMAIN store}

BothGenerals(pieces) ==
    findGeneral(pieces, RED) # NoPiece /\ findGeneral(pieces, BLACK) # NoPiece

\* C33: every session that the clients reach by moves picked on the board among
\* getValidMoves and accepted by handleMove has both Generals on the board, and
\* none is finished with resultReason "capture"
C33_GeneralsStayOnBoard ==
    \A s \in Sessions : BothGenerals(s.pieces) /\ s.resultReason # "capture"

\* the board offers a move of the side to move that handleMove accepts when the
\* client of that side holds session s in play view
HasAcceptableMove(s) ==
    \E i \in {j \in DOMAIN s.pieces : PieceColor(j) = s.turn} :
        LET offered == getValidMoves(i, s.pieces)
        IN \E t \in offered :
              MoveOutcome(Some(s), s.turn, "play", AnyMove(s.pieces, i, t)) \in Accepted

\* C34: every active session has a move for the side to move that the board
\* offers and handleMove accepts; a position without one is recorded finished
C34_ActiveHasAcceptableMove ==
    \A s \in Sessions : s.status = "active" => HasAcceptableMove(s)

\* an active session that handleMove produced in which the side to move is in
\* check, and a session that handleMove finished because no move was left
C34_Witness ==
    /\ \E s \in Sessions :
          /\ s.status = "active"
          /\ s.lastUpdated > s.startTime
          /\ isInCheck(s.pieces, s.turn)
    /\ \E s \in Sessions :
          /\ s.status = "finished"
          /\ s.resultReason \in {"checkmate", "stalemate"}
          /\ ~HasAcceptableMove(s)

\* C36: in every session turn is Red when the number of recorded moves is even
\* and Black when it is odd
C36_TurnParity ==
    \A s \in Sessions : s.turn = (IF Len(s.moves) % 2 = 0 THEN RED ELSE BLACK)

\* handleMove has recorded a move of Red in one session, Black now to move, and
\* a move of Black in another, Red now to move
C36_Witness ==
    /\ \E s \in Sessions :
          s.lastUpdated > s.startTime /\ Len(s.moves) % 2 = 1 /\ s.turn = BLACK
    /\ \E s \in Sessions :
          s.lastUpdated > s.startTime /\ Len(s.moves) % 2 = 0 /\ s.moves # <<>> /\ s.turn = RED

\* the pieces stand on the board, on squares of their own
OnBoardApart(pieces) ==
    /\ \A i \in DOMAIN pieces : pieces[i].x \in 0 .. 8 /\ pieces[i].y \in 0 .. 9
    /\ \A i, j \in DOMAIN pieces : i # j => pieces[i] # pieces[j]

\* C37: in every session every piece's position is on the board and no two
\* pieces occupy the same square
C37_PiecesOnBoardApart ==
    \A s \in Sessions : OnBoardApart(s.pieces)

\* the response of the poll of client c that the step goes on with
Answered(c) == CHOOSE r \in pollResponses[c] : r \notin pollResponses'[c]

C38_StepWithinMoves ==
    \A c \in Clients :
        (view[c] = "history" /\ Replayed(c) # Null)
        => /\ 0 <= historyStep[c]
           /\ historyStep[c] <= Len(Replayed(c)[1].moves)

\* C39: a playback that is left alone and stops, stops with the step on the
\* last ply of the session that is replayed
C39_StopsOnLastPly ==
    [][\A c \in Clients :
          (isPlayingHistory[c] /\ ~isPlayingHistory'[c])
          => LET replayed == activeReplaySession(selectedHistorySession'[c], currentSession'[c])
             IN /\ replayed # Null
                /\ historyStep'[c] = Len(replayed[1].moves)]_vars

\* C39 (ticks): while the playback goes on, a step that changes goes up by one
C39_TickAdvancesByOne ==
    [][\A c \in Clients :
          (isPlayingHistory[c] /\ isPlayingHistory'[c] /\ historyStep'[c] # historyStep[c])
          => historyStep'[c] = historyStep[c] + 1]_vars

\* C39 (restart): a playback started on or after the last ply starts from step 0,
\* one started earlier starts from the step shown
C39_StartAtEndRestarts ==
    [][\A c \in Clients :
          (~isPlayingHistory[c] /\ isPlayingHistory'[c])
          => historyStep'[c] = IF historyStep[c] >= Len(Replayed(c)[1].moves)
                               THEN 0 ELSE historyStep[c]]_vars

\* C39 (stop): a playback left alone does stop
C39_PlaybackStops ==
    \A c \in Clients : isPlayingHistory[c] ~> ~isPlayingHistory[c]


====
